---- MODULE Spec2Model ----
(***************************************************************************)
(* Flototext: push-to-talk dictation.  A model of the session controller   *)
(* (FlototextApp), the hotkey edge detector (HotkeyManager), the audio     *)
(* recorder (AudioRecorder), the transcriber (Transcriber) and the audio   *)
(* muter (AudioMuter), with every thread the program starts as a process   *)
(* of its own.                                                             *)
(*                                                                         *)
(* Leading underscores of the Python attribute names are dropped:          *)
(* self._processing is processing, self._is_pressed is is_pressed, ...     *)
(*                                                                         *)
(* Specifications:                                                         *)
(*   Spec      the running application, from FlototextApp.start() on: raw  *)
(*             key events, the handler threads they start, the recorder,   *)
(*             the model load, the workers and the delayed error resets    *)
(*   FairSpec  Spec, with every started thread scheduled again and again   *)
(*   SpecR     the AudioRecorder statement by statement, with its callers  *)
(*             unconstrained and the capture thread delivering chunks      *)
(*   SpecC     TextCorrector.correct on every text, for every dictionary   *)
(*             file the corrector can have loaded                          *)
(*   SpecD     the TextCorrector with its callers unconstrained: reload,   *)
(*             add_correction, remove_correction and correct (on the heard *)
(*             phrases) at any time, from any thread                       *)
(*   SpecE     Spec, with the edge handlers raising at any statement       *)
(*   SpecM     Spec, with the tray's mute item toggled at any time         *)
(*   FairSpecR SpecR, with the recorder's threads scheduled fairly         *)
(*   SpecH     Spec, with HotkeyManager.enable and disable called at any   *)
(*             time                                                        *)
(*   SpecP     _process_transcription statement by statement, on texts,    *)
(*             called at any time while the application runs               *)
(*   SpecT     the Transcriber with its callers unconstrained:             *)
(*             load_model_async and _process_transcription at any time,    *)
(*             and the shutdown (stop, _cleanup) at any moment             *)
(*                                                                         *)
(* Steps of one thread are split where it reads or writes state another    *)
(* thread writes; consecutive statements are one step where the split      *)
(* would add no behaviour (said at the action).                            *)
(***************************************************************************)
EXTENDS Integers, Sequences, FiniteSets, Bags, TLC

\* ------------------------------------------------------------------ bounds
\* a key event or an outside call is delivered while fewer threads than this
\* are in flight
MaxThreads == 3
\* chunks the capture stream delivers to one recording
MaxChunks == 1
\* the stopwatch of a recording saturates here (ticks of 0.25 s)
MaxElapsed == 2

\* the model call returns texts of at most this many characters
MaxLen == 5
\* correct is called with texts of at most this many characters
MaxText == 3
\* a dictionary file holds at most this many rules
MaxRules == 2
\* _process_transcription is called from outside while fewer calls than this
\* are in flight
MaxWorkers == 1
\* correct is called from outside while fewer calls than this are in flight
MaxCorrect == 1
\* reload, add_correction and remove_correction are called while fewer calls
\* of the three than this are in flight
MaxEditors == 1

\* ------------------------------------------------------- program constants
\* config.audio.min_duration = 0.5 s, in ticks of 0.25 s
MinDuration == 2

Keys == {"f2", "other"}
\* config.hotkey.trigger_key, resolved by _parse_key
trigger_key == "f2"

VARIABLES
    \* environment
    keyDown,          \* the trigger key is physically held
    elapsed,          \* time.time() - _start_time of the running recording
    sys_muted,        \* the endpoint's mute state (IAudioEndpointVolume)
    \* HotkeyManager
    is_pressed, enabled,
    lastEdge,         \* the last callback it dispatched
    \* AudioRecorder
    recording, audio_data, stream,
    lock, data_lock,  \* self._lock, self._data_lock: held or not
    delivered,        \* chunks the capture stream handed to _audio_callback
    ret,              \* what the last recorder call that returned, returned
    \* Transcriber
    model, model_loaded, loading,
    n_model_loaded,   \* on_model_loaded callbacks made so far
    \* AudioMuter
    mute_enabled, is_muted_by_us, was_muted,
    \* FlototextApp / TrayApp
    running, shutdown_event, processing, tray_state,
    \* TextCorrector: the rules, and the compiled pattern
    corrections, pattern,
    signal,           \* the sound / notification the last step emitted
    \* threads in flight: a bag of [fn, pc, result, tr, called]
    threads

vars == <<keyDown, elapsed, sys_muted, is_pressed, enabled, lastEdge,
          recording, audio_data, stream, lock, data_lock, delivered, ret,
          model, model_loaded, loading,
          n_model_loaded, mute_enabled, is_muted_by_us, was_muted,
          running, shutdown_event, processing, tray_state,
          corrections, pattern, signal, threads>>

hotkeyVars == <<is_pressed, enabled, lastEdge>>
recorderVars == <<recording, audio_data, stream>>
transcriberVars == <<model, model_loaded, loading>>
muterVars == <<mute_enabled, is_muted_by_us, was_muted, sys_muted>>
lifeVars == <<running, shutdown_event>>
correctorVars == <<corrections, pattern>>
\* the recorder state seen only when start_recording, stop_recording and
\* _audio_callback are taken statement by statement
fineVars == <<lock, data_lock, delivered, ret>>

\* ------------------------------------------------------------------ threads
\* RecordingResult; status "unset" before stop_recording returned, "None"
\* when it returned None
NoResult == [status |-> "unset", audio |-> <<>>, duration |-> 0, is_valid |-> FALSE]
NoneResult == [status |-> "None", audio |-> <<>>, duration |-> 0, is_valid |-> FALSE]
RecordingResult(a, d, v) ==
    [status |-> "result", audio |-> a, duration |-> d, is_valid |-> v]

\* Transcription(text, language, duration_seconds, word_count), created_at
\* apart; NoTranscription where there is none
Transcription(text, language, duration, word_count) ==
    [text |-> text, language |-> language, duration_seconds |-> duration,
     word_count |-> word_count]
NoTranscription == Transcription(<<>>, "", 0, 0)

\* a thread: the function it runs, where it is, and its locals: result of
\* _on_hotkey_release (handed to process) and of stop_recording, in process
\* the outcome tr of transcribe and whether that call reached the underlying
\* model, and in _audio_callback the chunk indata.  In
\* _process_transcription taken statement by statement: tr_text is
\* result.text, text the local of that name, calls the calls made so far to
\* the corrector, the database and the inserter, each with its argument and
\* whether it took effect, duration its argument of that name, language is
\* result.language and saved the Transcription it gave to save_transcription.
\* In correct: text is the argument, returns the text returned.  In
\* add_correction and remove_correction: before is self._corrections as the
\* call found it
Thread(fn, pc) ==
    [fn |-> fn, pc |-> pc, result |-> NoResult, tr |-> "unset",
     called |-> FALSE, chunk |-> 0, tr_text |-> <<>>, text |-> <<>>,
     calls |-> <<>>, returns |-> <<>>, duration |-> 0, language |-> "",
     saved |-> NoTranscription, before |-> <<>>]

Spawn(bag, t) == bag (+) SetToBag({t})
Remove(bag, t) == bag (-) SetToBag({t})
\* the thread t of the bag takes a step and is t2 afterwards
Move(t, t2) == Spawn(Remove(threads, t), t2)
At(t, fn, pc) == t.fn = fn /\ t.pc = pc
Running(fn) == {t \in BagToSet(threads) : t.fn = fn}
Count(fn) == BagCardinality([t \in Running(fn) |-> threads[t]])

\* ------------------------------------------------------------ TextCorrector
\* a text is a sequence of characters: two letters in both cases, the
\* apostrophe (not a word character) and the space
Chars == {"a", "b", "A", "B", "'", " "}
\* the characters \w matches
WordChars == {"a", "b", "A", "B"}
Texts == UNION {[1..n -> Chars] : n \in 0..MaxText}

\* str.lower, str.upper and str.isupper: all cased characters are upper-case
\* and there is at least one
char_lower(c) == CASE c = "A" -> "a" [] c = "B" -> "b" [] OTHER -> c
char_upper(c) == CASE c = "a" -> "A" [] c = "b" -> "B" [] OTHER -> c
lower(s) == IF s = <<>> THEN <<>> ELSE [i \in 1..Len(s) |-> char_lower(s[i])]
upper(s) == IF s = <<>> THEN <<>> ELSE [i \in 1..Len(s) |-> char_upper(s[i])]
UpperChars == {"A", "B"}
LowerChars == {"a", "b"}
isupper(s) ==
    /\ \E i \in 1..Len(s) : s[i] \in UpperChars
    /\ \A i \in 1..Len(s) : s[i] \notin LowerChars

\* str.strip
RECURSIVE lstrip(_)
lstrip(text) ==
    IF text # <<>> /\ Head(text) = " " THEN lstrip(Tail(text)) ELSE text
RECURSIVE rstrip(_)
rstrip(text) ==
    IF text # <<>> /\ text[Len(text)] = " "
    THEN rstrip(SubSeq(text, 1, Len(text) - 1)) ELSE text
strip(text) == rstrip(lstrip(text))

\* a variant of split that cuts at every single space: str.split(" ")
RECURSIVE split_at_each_space(_)
split_at_each_space(text) ==
    LET n == IF \E i \in 1..Len(text) : text[i] = " "
             THEN (CHOOSE i \in 1..Len(text) :
                     text[i] = " " /\ \A j \in 1..(i - 1) : text[j] # " ") - 1
             ELSE Len(text)
    IN IF n = Len(text) THEN <<text>>
       ELSE <<SubSeq(text, 1, n)>>
              \o split_at_each_space(SubSeq(text, n + 2, Len(text)))

\* str.split: the whitespace-separated words of text
RECURSIVE split(_)
split(text) ==
    LET s == lstrip(text)
        n == IF \E i \in 1..Len(s) : s[i] = " "
             THEN (CHOOSE i \in 1..Len(s) :
                     s[i] = " " /\ \A j \in 1..(i - 1) : s[j] # " ") - 1
             ELSE Len(s)
    IN IF s = <<>> THEN <<>>
       ELSE <<SubSeq(s, 1, n)>> \o split(SubSeq(s, n + 1, Len(s)))

\* the rules a dictionary file can hold: what the ASR outputs, and the
\* correct spelling.  A rule set is a sequence of <<key, value>> in the
\* order of the dict, with no key twice
HeardKeys ==
    {<<"a">>, <<"A">>, <<"b">>, <<"a", " ", "b">>, <<"a", "'", "b">>,
     <<"a", "'">>, <<"a", "b", "a">>}
Spellings == {<<"b">>, <<"b", "a">>, <<"a">>}
Rules == HeardKeys \X Spellings
Files ==
    {rules \in UNION {[1..n -> Rules] : n \in 0..MaxRules} :
        \A i, j \in 1..Len(rules) : rules[i][1] = rules[j][1] => i = j}

\* custom_words.json of the running application
DefaultFile == <<<< <<"a">>, <<"b">> >>>>

\* the keys of a rule set, in its order
keys(rules) == IF rules = <<>> THEN <<>>
               ELSE [i \in 1..Len(rules) |-> rules[i][1]]

\* the length of the longest of the keys ks
longest(ks) ==
    IF ks = <<>> THEN 0
    ELSE CHOOSE n \in {Len(ks[i]) : i \in 1..Len(ks)} :
            \A i \in 1..Len(ks) : Len(ks[i]) <= n

\* sorted(keys, key=len, reverse=True): longest first, keys of one length in
\* their order (the sort is stable)
RECURSIVE sorted_by_len(_, _)
sorted_by_len(ks, n) ==
    IF n = 0 THEN <<>>
    ELSE LET HasLen(k) == Len(k) = n
         IN SelectSeq(ks, HasLen) \o sorted_by_len(ks, n - 1)

\* self._pattern: None, or the compiled alternation \b(k1|k2|...)\b with
\* re.IGNORECASE, as the sequence of its alternatives
NoPattern == [compiled |-> FALSE, alternatives |-> <<>>]

\* a variant of _build_pattern that keeps the order of the dict
build_pattern_unsorted(rules) ==
    IF rules = <<>> THEN NoPattern
    ELSE [compiled |-> TRUE, alternatives |-> keys(rules)]

\* TextCorrector._build_pattern: the value it gives self._pattern
build_pattern(rules) ==
    IF rules = <<>> THEN NoPattern
    ELSE [compiled |-> TRUE,
          alternatives |-> sorted_by_len(keys(rules), longest(keys(rules)))]

\* \b between text[i - 1] and text[i]: exactly one of the two is a word
\* character (the ends of the text count as none)
boundary(text, i) ==
    LET before == i > 1 /\ text[i - 1] \in WordChars
        after == i <= Len(text) /\ text[i] \in WordChars
    IN before # after

\* \b(key)\b matches text from position i on, ignoring case
matches_at(key, text, i) ==
    /\ i + Len(key) - 1 <= Len(text)
    /\ lower(SubSeq(text, i, i + Len(key) - 1)) = lower(key)
    /\ boundary(text, i)
    /\ boundary(text, i + Len(key))

\* the alternative the pattern matches with at position i: the first in
\* its order that matches there, 0 for none
match_at(alternatives, text, i) ==
    IF \E n \in 1..Len(alternatives) : matches_at(alternatives[n], text, i)
    THEN CHOOSE n \in 1..Len(alternatives) :
            /\ matches_at(alternatives[n], text, i)
            /\ \A m \in 1..(n - 1) : ~matches_at(alternatives[m], text, i)
    ELSE 0

\* str with its first character upper-cased: value[0].upper() + value[1:]
\* if len(value) > 1 else value.upper()
capitalise(value) ==
    IF Len(value) > 1
    THEN <<char_upper(value[1])>> \o SubSeq(value, 2, Len(value))
    ELSE upper(value)

\* replace_match, its loop over self._corrections.items(): the first rule
\* whose key equals the matched text ignoring case, 0 for none
find_rule(rules, matched) ==
    IF \E n \in 1..Len(rules) : lower(rules[n][1]) = lower(matched)
    THEN CHOOSE n \in 1..Len(rules) :
            /\ lower(rules[n][1]) = lower(matched)
            /\ \A m \in 1..(n - 1) : lower(rules[m][1]) # lower(matched)
    ELSE 0

\* replace_match of TextCorrector.correct: the replacement of the matched
\* text under the rules: the value of the first rule whose key equals it
\* ignoring case, in the case pattern of the matched text
replace_match(rules, matched) ==
    IF find_rule(rules, matched) # 0
    THEN LET value == rules[find_rule(rules, matched)][2]
         IN IF isupper(matched) THEN upper(value)
            ELSE IF matched[1] \in UpperChars /\ Len(matched) > 1
            THEN capitalise(value)
            ELSE value
    ELSE matched

\* the matches of the pattern in text from position i on, left to right
\* and not overlapping, as re finds them: each with its start and length
RECURSIVE finditer(_, _, _)
finditer(alternatives, text, i) ==
    IF i > Len(text) THEN <<>>
    ELSE LET n == match_at(alternatives, text, i)
         IN IF n = 0 THEN finditer(alternatives, text, i + 1)
            ELSE LET len == Len(alternatives[n])
                 IN <<[start |-> i, len |-> len]>>
                      \o finditer(alternatives, text, i + len)

\* the text of a match
group(text, m) == SubSeq(text, m.start, m.start + m.len - 1)

\* self._pattern.sub(replace_match, text): text from position i on with
\* each of the matches replaced by what replace_match returns for it
RECURSIVE sub(_, _, _, _)
sub(rules, text, matches, i) ==
    IF matches = <<>> THEN SubSeq(text, i, Len(text))
    ELSE LET m == Head(matches)
         IN SubSeq(text, i, m.start - 1)
              \o replace_match(rules, group(text, m))
              \o sub(rules, text, Tail(matches), m.start + m.len)

\* TextCorrector.correct with self._corrections = rules and
\* self._pattern = pat
correct_with(rules, pat, text) ==
    IF text = <<>> \/ ~pat.compiled \/ rules = <<>> THEN text
    ELSE sub(rules, text, finditer(pat.alternatives, text, 1), 1)

\* TextCorrector.correct
correct(text) == correct_with(corrections, pattern, text)

\* --------------------------------------------------------------------- Init
\* the state after FlototextApp.__init__, the TextCorrector apart
InitApp ==
    /\ keyDown = FALSE
    /\ elapsed = 0
    /\ sys_muted = FALSE
    /\ is_pressed = FALSE
    /\ enabled = TRUE
    /\ lastEdge = "none"
    /\ recording = FALSE
    /\ audio_data = <<>>
    /\ stream = "None"
    /\ lock = FALSE
    /\ data_lock = FALSE
    /\ delivered = 0
    /\ ret = [call |-> "none", ok |-> FALSE, result |-> NoResult]
    /\ model = "None"
    /\ model_loaded = FALSE
    /\ loading = FALSE
    /\ n_model_loaded = 0
    /\ mute_enabled = TRUE
    /\ is_muted_by_us = FALSE
    /\ was_muted = FALSE
    /\ running = FALSE
    /\ shutdown_event = FALSE
    /\ processing = FALSE
    /\ tray_state = "IDLE"
    /\ signal = "none"
    /\ threads = EmptyBag

\* TextCorrector.__init__, _load_dictionary: the rules of the file (none
\* when it is missing or unreadable) and their pattern
Loaded(file) ==
    /\ corrections = file
    /\ pattern = build_pattern(file)

\* the state after FlototextApp.__init__
Init == InitApp /\ Loaded(DefaultFile)

\* the same, with any dictionary file
InitC == InitApp /\ \E file \in Files : Loaded(file)

\* ------------------------------------------------------------ HotkeyManager
\* a variant of _on_press without the "not self._is_pressed" test: every
\* key-repeat of the held key is dispatched
HotkeyOnPressRepeat(key) ==
    IF enabled /\ key = trigger_key
    THEN /\ is_pressed' = TRUE
         /\ lastEdge' = "press"
         /\ threads' = Spawn(threads, Thread("_on_hotkey_press", "checks"))
         /\ UNCHANGED enabled
    ELSE UNCHANGED <<hotkeyVars, threads>>

\* a variant of _on_press that calls on_key_press itself: the listener
\* thread is inside a handler while one runs, and the event is lost on it
HotkeyOnPressInline(key) ==
    IF enabled /\ key = trigger_key /\ ~is_pressed
       /\ Running("_on_hotkey_press") \cup Running("_on_hotkey_release") = {}
    THEN /\ is_pressed' = TRUE
         /\ lastEdge' = "press"
         /\ threads' = Spawn(threads, Thread("_on_hotkey_press", "checks"))
         /\ UNCHANGED enabled
    ELSE UNCHANGED <<hotkeyVars, threads>>

\* HotkeyManager._on_press(key), run by the listener thread
HotkeyOnPress(key) ==
    IF enabled /\ key = trigger_key /\ ~is_pressed
    THEN /\ is_pressed' = TRUE
         /\ lastEdge' = "press"
         /\ threads' = Spawn(threads, Thread("_on_hotkey_press", "checks"))
         /\ UNCHANGED enabled
    ELSE UNCHANGED <<hotkeyVars, threads>>

\* HotkeyManager._on_release(key), run by the listener thread
HotkeyOnRelease(key) ==
    IF enabled /\ key = trigger_key /\ is_pressed
    THEN /\ is_pressed' = FALSE
         /\ lastEdge' = "release"
         /\ threads' = Spawn(threads, Thread("_on_hotkey_release", "check_recording"))
         /\ UNCHANGED enabled
    ELSE UNCHANGED <<hotkeyVars, threads>>

\* HotkeyManager.enable, called from outside at any time
Enable ==
    /\ enabled' = TRUE
    /\ signal' = "none"
    /\ UNCHANGED <<keyDown, elapsed, is_pressed, lastEdge, recorderVars,
                   transcriberVars, n_model_loaded, muterVars, lifeVars,
                   fineVars, correctorVars, processing, tray_state, threads>>

\* HotkeyManager.disable, called from outside at any time
Disable ==
    /\ enabled' = FALSE
    /\ signal' = "none"
    /\ UNCHANGED <<keyDown, elapsed, is_pressed, lastEdge, recorderVars,
                   transcriberVars, n_model_loaded, muterVars, lifeVars,
                   fineVars, correctorVars, processing, tray_state, threads>>

\* a raw key-down event from the OS: a physical press, or a key-repeat of the
\* held key
KeyDownEvent(key) ==
    /\ running
    /\ BagCardinality(threads) < MaxThreads
    /\ keyDown' = IF key = trigger_key THEN TRUE ELSE keyDown
    /\ HotkeyOnPress(key)
    /\ signal' = "none"
    /\ UNCHANGED <<elapsed, recorderVars, transcriberVars, n_model_loaded,
                   muterVars, lifeVars, fineVars, correctorVars, processing, tray_state>>

\* a raw key-up event from the OS: a physical release, or a duplicate up
KeyUpEvent(key) ==
    /\ running
    /\ BagCardinality(threads) < MaxThreads
    /\ keyDown' = IF key = trigger_key THEN FALSE ELSE keyDown
    /\ HotkeyOnRelease(key)
    /\ signal' = "none"
    /\ UNCHANGED <<elapsed, recorderVars, transcriberVars, n_model_loaded,
                   muterVars, lifeVars, fineVars, correctorVars, processing, tray_state>>

\* ------------------------------------------------------------ AudioRecorder
\* what the audio device does at a call: work, or raise when the stream is
\* opened ("open_raises", start_recording only) or started / stopped
Devices == {"ok", "open_raises", "raises"}

\* AudioRecorder.start_recording, all of it under self._lock: its return value
start_recording_returns(dev) == ~recording /\ dev = "ok"

\* AudioRecorder.start_recording: its effect on the recorder
start_recording(dev) ==
    IF recording
    THEN UNCHANGED <<recorderVars, elapsed>>
    ELSE /\ audio_data' = <<>>
         /\ elapsed' = 0
         /\ stream' = CASE dev = "ok" -> "started"
                        [] dev = "open_raises" -> stream
                        [] OTHER -> "created"
         /\ recording' = (dev = "ok")

\* a variant of the validity test that rejects the minimum itself
IsValidAboveMinimum(duration) == duration > MinDuration

\* a variant of the validity test that accepts every duration
IsValidAlways(duration) == TRUE

\* the validity test of stop_recording
IsValid(duration) == duration >= MinDuration

\* AudioRecorder.stop_recording, all of it under self._lock: its return value
stop_recording_returns(dev) ==
    IF ~recording THEN NoneResult
    ELSE IF stream # "None" /\ dev # "ok" THEN NoneResult
    ELSE IF audio_data = <<>> THEN RecordingResult(<<>>, 0, FALSE)
    ELSE RecordingResult(audio_data, elapsed, IsValid(elapsed))

\* a variant of stop_recording that leaves _recording set
stop_recording_keeps_flag(dev) ==
    IF ~recording
    THEN UNCHANGED <<recorderVars, elapsed>>
    ELSE /\ elapsed' = 0
         /\ stream' = IF stream # "None" /\ dev # "ok" THEN stream ELSE "None"
         /\ UNCHANGED <<recording, audio_data>>

\* AudioRecorder.stop_recording: its effect on the recorder
stop_recording(dev) ==
    IF ~recording
    THEN UNCHANGED <<recorderVars, elapsed>>
    ELSE /\ recording' = FALSE
         \* the stopwatch is read here and not again before the next start
         /\ elapsed' = 0
         /\ stream' = IF stream # "None" /\ dev # "ok" THEN stream ELSE "None"
         /\ UNCHANGED audio_data

\* AudioRecorder._audio_callback, run by the capture thread of a started stream
AudioCallback ==
    /\ stream = "started"
    /\ recording
    /\ Len(audio_data) < MaxChunks
    /\ audio_data' = Append(audio_data, Len(audio_data) + 1)
    /\ signal' = "none"
    /\ UNCHANGED <<keyDown, elapsed, hotkeyVars, recording, stream,
                   transcriberVars, n_model_loaded, muterVars, lifeVars,
                   fineVars, correctorVars, processing, tray_state, threads>>

\* time passes while a recording runs
Tick ==
    /\ recording
    /\ elapsed < MaxElapsed
    /\ elapsed' = elapsed + 1
    /\ signal' = "none"
    /\ UNCHANGED <<keyDown, hotkeyVars, recorderVars, transcriberVars,
                   n_model_loaded, muterVars, lifeVars, fineVars, correctorVars, processing,
                   tray_state, threads>>

\* --------------------------------------------------------------- AudioMuter
\* AudioMuter.mute (pycaw available, endpoint interface initialised)
mute ==
    IF ~mute_enabled \/ is_muted_by_us
    THEN UNCHANGED muterVars
    ELSE /\ was_muted' = sys_muted
         /\ sys_muted' = TRUE
         /\ is_muted_by_us' = ~sys_muted
         /\ UNCHANGED mute_enabled

\* AudioMuter.unmute
unmute ==
    IF ~mute_enabled \/ ~is_muted_by_us
    THEN UNCHANGED muterVars
    ELSE /\ sys_muted' = IF was_muted THEN sys_muted ELSE FALSE
         /\ is_muted_by_us' = FALSE
         /\ UNCHANGED <<mute_enabled, was_muted>>

\* AudioMuter.set_enabled: the flag is assigned first, and the unmute() it
\* then calls reads the flag just assigned
set_enabled(e) ==
    /\ mute_enabled' = e
    /\ IF ~e /\ is_muted_by_us
       THEN IF ~mute_enabled' \/ ~is_muted_by_us
            THEN UNCHANGED <<is_muted_by_us, was_muted, sys_muted>>
            ELSE /\ sys_muted' = IF was_muted THEN sys_muted ELSE FALSE
                 /\ is_muted_by_us' = FALSE
                 /\ UNCHANGED was_muted
       ELSE UNCHANGED <<is_muted_by_us, was_muted, sys_muted>>

\* FlototextApp._on_toggle_mute, the tray menu's "mute during recording" item
OnToggleMute(e) ==
    /\ running
    /\ set_enabled(e)
    /\ signal' = "none"
    /\ UNCHANGED <<keyDown, elapsed, hotkeyVars, recorderVars,
                   transcriberVars, n_model_loaded, lifeVars, fineVars,
                   correctorVars, processing, tray_state, threads>>

\* ------------------------------------------------ FlototextApp, the handlers
\* FlototextApp._on_transcription_error, called with bag the threads in
\* flight: tray ERROR, error sound and notification, and the delayed reset
on_transcription_error(bag) ==
    /\ tray_state' = "ERROR"
    /\ signal' = "error"
    /\ threads' = Spawn(bag, Thread("reset_state", "sleep"))

\* reset_state of _on_transcription_error: after the sleep, the test
ResetWake(t) ==
    /\ At(t, "reset_state", "sleep")
    /\ threads' = IF running /\ ~recording
                  THEN Move(t, [t EXCEPT !.pc = "set_idle"])
                  ELSE Remove(threads, t)
    /\ signal' = "none"
    /\ UNCHANGED <<keyDown, elapsed, hotkeyVars, recorderVars,
                   transcriberVars, n_model_loaded, muterVars, lifeVars,
                   fineVars, correctorVars, processing, tray_state>>

\* reset_state: set_state(IDLE)
ResetSetIdle(t) ==
    /\ At(t, "reset_state", "set_idle")
    /\ tray_state' = "IDLE"
    /\ threads' = Remove(threads, t)
    /\ signal' = "none"
    /\ UNCHANGED <<keyDown, elapsed, hotkeyVars, recorderVars,
                   transcriberVars, n_model_loaded, muterVars, lifeVars,
                   fineVars, correctorVars, processing>>

\* variants of the two tests: without "if self._processing", and without
\* "if not self._transcriber.is_ready"
press_checks_ignoring_processing ==
    IF ~model_loaded THEN "not_ready" ELSE "go"

press_checks_ignoring_ready ==
    IF processing THEN "processing" ELSE "go"

\* _on_hotkey_press: what the two tests at its head decide: "not_ready"
\* (error sound), "processing" (the message "Already processing a
\* transcription") or "go"
press_checks ==
    IF ~model_loaded THEN "not_ready"
    ELSE IF processing THEN "processing"
    ELSE "go"

\* _on_hotkey_press: "if not self._transcriber.is_ready" and "if
\* self._processing".  One step: is_ready stays True once it is True while
\* the application runs, so the pair reads as at the time of the second test
PressChecks(t) ==
    /\ At(t, "_on_hotkey_press", "checks")
    /\ signal' = IF press_checks = "go" THEN "none" ELSE press_checks
    /\ threads' = IF press_checks = "go"
                  THEN Move(t, [t EXCEPT !.pc = "start_recording"])
                  ELSE Remove(threads, t)
    /\ UNCHANGED <<keyDown, elapsed, hotkeyVars, recorderVars,
                   transcriberVars, n_model_loaded, muterVars, lifeVars,
                   fineVars, correctorVars, processing, tray_state>>

\* a variant of _on_hotkey_press that does not test what start_recording
\* returns
PressStartRecordingUnchecked(t) ==
    /\ At(t, "_on_hotkey_press", "start_recording")
    /\ \E dev \in Devices :
        /\ start_recording(dev)
        /\ threads' = Move(t, [t EXCEPT !.pc = "set_state"])
    /\ signal' = "none"
    /\ UNCHANGED <<keyDown, hotkeyVars, transcriberVars, n_model_loaded,
                   muterVars, lifeVars, fineVars, correctorVars, processing, tray_state>>

\* _on_hotkey_press: if self._audio_recorder.start_recording()
PressStartRecording(t) ==
    /\ At(t, "_on_hotkey_press", "start_recording")
    /\ \E dev \in Devices :
        /\ start_recording(dev)
        /\ threads' = IF start_recording_returns(dev)
                      THEN Move(t, [t EXCEPT !.pc = "set_state"])
                      ELSE Remove(threads, t)
    /\ signal' = "none"
    /\ UNCHANGED <<keyDown, hotkeyVars, transcriberVars, n_model_loaded,
                   muterVars, lifeVars, fineVars, correctorVars, processing, tray_state>>

\* _on_hotkey_press: set_state(RECORDING); play_start_recording();
\* self._audio_muter.mute().  One step: no other step both writes the tray
\* state and calls the muter
PressSetState(t) ==
    /\ At(t, "_on_hotkey_press", "set_state")
    /\ tray_state' = "RECORDING"
    /\ mute
    /\ threads' = Remove(threads, t)
    /\ signal' = "none"
    /\ UNCHANGED <<keyDown, elapsed, hotkeyVars, recorderVars,
                   transcriberVars, n_model_loaded, lifeVars, fineVars, correctorVars,
                   processing>>

\* a variant of _on_hotkey_release without the is_recording test
ReleaseCheckRecordingAlways(t) ==
    /\ At(t, "_on_hotkey_release", "check_recording")
    /\ threads' = Move(t, [t EXCEPT !.pc = "stop_recording"])
    /\ signal' = "none"
    /\ UNCHANGED <<keyDown, elapsed, hotkeyVars, recorderVars,
                   transcriberVars, n_model_loaded, muterVars, lifeVars,
                   fineVars, correctorVars, processing, tray_state>>

\* _on_hotkey_release: if not self._audio_recorder.is_recording: return
ReleaseCheckRecording(t) ==
    /\ At(t, "_on_hotkey_release", "check_recording")
    /\ threads' = IF ~recording THEN Remove(threads, t)
                  ELSE Move(t, [t EXCEPT !.pc = "stop_recording"])
    /\ signal' = "none"
    /\ UNCHANGED <<keyDown, elapsed, hotkeyVars, recorderVars,
                   transcriberVars, n_model_loaded, muterVars, lifeVars,
                   fineVars, correctorVars, processing, tray_state>>

\* _on_hotkey_release: result = self._audio_recorder.stop_recording()
ReleaseStopRecording(t) ==
    /\ At(t, "_on_hotkey_release", "stop_recording")
    /\ \E dev \in Devices \ {"open_raises"} :
        /\ stop_recording(dev)
        /\ threads' = Move(t, [t EXCEPT !.pc = "unmute",
                                        !.result = stop_recording_returns(dev)])
    /\ signal' = "none"
    /\ UNCHANGED <<keyDown, hotkeyVars, transcriberVars, n_model_loaded,
                   muterVars, lifeVars, fineVars, correctorVars, processing, tray_state>>

\* _on_hotkey_release: self._audio_muter.unmute(); play_stop_recording()
ReleaseUnmute(t) ==
    /\ At(t, "_on_hotkey_release", "unmute")
    /\ unmute
    /\ threads' = Move(t, [t EXCEPT !.pc = "dispatch"])
    /\ signal' = "none"
    /\ UNCHANGED <<keyDown, elapsed, hotkeyVars, recorderVars,
                   transcriberVars, n_model_loaded, lifeVars, fineVars, correctorVars,
                   processing, tray_state>>

\* _on_hotkey_release, from "if result is None" to its end: the error, the
\* too-short return, or _processing = True, set_state(PROCESSING) and the
\* start of the worker thread (process), which takes over result
ReleaseDispatch(t) ==
    /\ At(t, "_on_hotkey_release", "dispatch")
    /\ IF t.result.status = "None"
       THEN /\ on_transcription_error(Remove(threads, t))
            /\ UNCHANGED processing
       ELSE IF ~t.result.is_valid
       THEN /\ tray_state' = "IDLE"
            /\ signal' = "too_short"
            /\ threads' = Remove(threads, t)
            /\ UNCHANGED processing
       ELSE /\ processing' = TRUE
            /\ tray_state' = "PROCESSING"
            /\ threads' = Move(t, [t EXCEPT !.fn = "process", !.pc = "transcribe"])
            /\ signal' = "none"
    /\ UNCHANGED <<keyDown, elapsed, hotkeyVars, recorderVars,
                   transcriberVars, n_model_loaded, muterVars, lifeVars,
                   fineVars, correctorVars>>

\* an exception in on_key_press or on_key_release, at any statement of the
\* handler: it is raised in the thread _on_press / _on_release started
HandlerRaises(t) ==
    /\ t.fn \in {"_on_hotkey_press", "_on_hotkey_release"}
    /\ t.pc # "raised"
    /\ threads' = Move(t, [t EXCEPT !.pc = "raised"])
    /\ signal' = "none"
    /\ UNCHANGED <<keyDown, elapsed, hotkeyVars, recorderVars,
                   transcriberVars, n_model_loaded, muterVars, lifeVars,
                   fineVars, correctorVars, processing, tray_state>>

\* the thread of a handler that raised ends
HandlerExit(t) ==
    /\ t.fn \in {"_on_hotkey_press", "_on_hotkey_release"}
    /\ t.pc = "raised"
    /\ threads' = Remove(threads, t)
    /\ signal' = "none"
    /\ UNCHANGED <<keyDown, elapsed, hotkeyVars, recorderVars,
                   transcriberVars, n_model_loaded, muterVars, lifeVars,
                   fineVars, correctorVars, processing, tray_state>>

\* -------------------------------------------------------------- Transcriber
\* what the underlying model call does: return text, return nothing usable,
\* raise torch.cuda.OutOfMemoryError, raise anything else
ModelOutcomes == {"text", "empty", "oom", "error"}
Failed(tr) == tr \in {"model_not_loaded", "oom", "error"}

\* a variant of transcribe without the "if not self._model_loaded" return
transcribe_unguarded(out) ==
    IF model = "None" THEN "error" ELSE out

\* Transcriber.transcribe: the result it returns when the model call does
\* out.  Not loaded: the failed result at once
transcribe(out) ==
    IF ~model_loaded THEN "model_not_loaded"
    ELSE IF model = "None" THEN "error"
    ELSE out

\* Transcriber.transcribe: whether self._model.transcribe runs
calls_model(out) == transcribe(out) # "model_not_loaded" /\ model # "None"

\* Transcriber.transcribe: whether it calls self.on_error (the two except
\* branches do, the not-loaded return does not)
transcribe_calls_on_error(out) == transcribe(out) \in {"oom", "error"}

\* process, first half: result = self._transcriber.transcribe(...) of
\* _process_transcription, with the on_error callback of a failed model call
ProcessTranscribe(t) ==
    /\ At(t, "process", "transcribe")
    /\ \E out \in ModelOutcomes :
        LET t2 == [t EXCEPT !.pc = "after_transcribe", !.tr = transcribe(out),
                            !.called = calls_model(out)]
        IN IF transcribe_calls_on_error(out)
           THEN on_transcription_error(Move(t, t2))
           ELSE /\ threads' = Move(t, t2)
                /\ signal' = "none"
                /\ UNCHANGED tray_state
    /\ UNCHANGED <<keyDown, elapsed, hotkeyVars, recorderVars,
                   transcriberVars, n_model_loaded, muterVars, lifeVars,
                   fineVars, correctorVars, processing>>

\* Transcriber.load_model_async: the threads in flight after the call
load_model_async(bag) ==
    IF loading \/ model_loaded THEN bag
    ELSE Spawn(bag, Thread("_load_model", "lock"))

\* Transcriber._load_model: with self._lock
LoadModelLock(t) ==
    /\ At(t, "_load_model", "lock")
    /\ IF model_loaded
       THEN /\ threads' = Remove(threads, t)
            /\ UNCHANGED loading
       ELSE /\ loading' = TRUE
            /\ threads' = Move(t, [t EXCEPT !.pc = "load"])
    /\ signal' = "none"
    /\ UNCHANGED <<keyDown, elapsed, hotkeyVars, recorderVars, model,
                   model_loaded, n_model_loaded, muterVars, lifeVars,
                   fineVars, correctorVars, processing, tray_state>>

\* Transcriber._load_model: the try block up to the callback; ok is whether
\* Qwen3ASRModel.from_pretrained returned
LoadModelLoad(t) ==
    /\ At(t, "_load_model", "load")
    /\ \E ok \in BOOLEAN :
        IF ok
        THEN /\ model' = "Qwen3ASRModel"
             /\ model_loaded' = TRUE
             /\ loading' = FALSE
             /\ threads' = Move(t, [t EXCEPT !.pc = "on_model_loaded"])
        ELSE /\ loading' = FALSE
             /\ threads' = Move(t, [t EXCEPT !.pc = "on_error"])
             /\ UNCHANGED <<model, model_loaded>>
    /\ signal' = "none"
    /\ UNCHANGED <<keyDown, elapsed, hotkeyVars, recorderVars,
                   n_model_loaded, muterVars, lifeVars, fineVars, correctorVars, processing,
                   tray_state>>

\* Transcriber._load_model: self.on_model_loaded(), inside the try block.
\* FlototextApp._on_model_loaded either returns, or raises at the tray icon
\* update of set_state (after self._state = IDLE, before the ready sound)
\* and the except branch of _load_model takes over
LoadModelLoaded(t) ==
    /\ At(t, "_load_model", "on_model_loaded")
    /\ tray_state' = "IDLE"
    /\ n_model_loaded' = n_model_loaded + 1
    /\ \E raises \in BOOLEAN :
        IF raises
        THEN /\ loading' = FALSE
             /\ signal' = "none"
             /\ threads' = Move(t, [t EXCEPT !.pc = "on_error"])
        ELSE /\ signal' = "model_loaded"
             /\ threads' = Remove(threads, t)
             /\ UNCHANGED loading
    /\ UNCHANGED <<keyDown, elapsed, hotkeyVars, recorderVars, model,
                   model_loaded, muterVars, lifeVars, fineVars, correctorVars, processing>>

\* a variant of _load_model that starts a new load after a failed one
LoadModelErrorRetry(t) ==
    /\ At(t, "_load_model", "on_error")
    /\ on_transcription_error(Spawn(Remove(threads, t),
                                    Thread("_load_model", "lock")))
    /\ UNCHANGED <<keyDown, elapsed, hotkeyVars, recorderVars,
                   transcriberVars, n_model_loaded, muterVars, lifeVars,
                   fineVars, correctorVars, processing>>

\* Transcriber._load_model: self.on_error(error_msg)
LoadModelError(t) ==
    /\ At(t, "_load_model", "on_error")
    /\ on_transcription_error(Remove(threads, t))
    /\ UNCHANGED <<keyDown, elapsed, hotkeyVars, recorderVars,
                   transcriberVars, n_model_loaded, muterVars, lifeVars,
                   fineVars, correctorVars, processing>>

\* ------------------------------------------------- FlototextApp, the worker
\* a variant of process without try/finally: an exception of
\* _process_transcription skips the assignment
process_finally_skipped(fin) == IF fin = "raised" THEN processing ELSE FALSE

\* process of _on_hotkey_release, the finally clause: the value of
\* _processing once the worker ended with fin
process_finally(fin) == FALSE

\* process, second half: _process_transcription after transcribe returned
\* (the error return, the empty return, or correct, save_transcription and
\* insert_text; fin is how that ends: pasted, copied to the clipboard, or an
\* exception) and the finally clause
ProcessFinish(t) ==
    /\ At(t, "process", "after_transcribe")
    /\ IF Failed(t.tr)
       THEN /\ on_transcription_error(Remove(threads, t))
            /\ processing' = process_finally("error")
       ELSE IF t.tr = "empty"
       THEN /\ tray_state' = "IDLE"
            /\ threads' = Remove(threads, t)
            /\ processing' = process_finally("empty")
            /\ signal' = "none"
       ELSE \E fin \in {"pasted", "clipboard", "raised"} :
            /\ threads' = Remove(threads, t)
            /\ processing' = process_finally(fin)
            /\ tray_state' = IF fin = "raised" THEN tray_state ELSE "IDLE"
            /\ signal' = IF fin = "raised" THEN "none" ELSE fin
    /\ UNCHANGED <<keyDown, elapsed, hotkeyVars, recorderVars,
                   transcriberVars, n_model_loaded, muterVars, lifeVars,
                   fineVars, correctorVars>>

\* FlototextApp.start up to the wait loop: _running, the tray, the listener,
\* load_model_async
Start ==
    /\ ~running /\ ~shutdown_event
    /\ running' = TRUE
    /\ UNCHANGED shutdown_event
    /\ tray_state' = "LOADING"
    /\ signal' = "model_loading"
    /\ threads' = load_model_async(threads)
    /\ UNCHANGED <<keyDown, elapsed, hotkeyVars, recorderVars,
                   transcriberVars, n_model_loaded, muterVars, fineVars, correctorVars,
                   processing>>

\* ------------------------------------------- Transcriber, callers unconstrained
\* Transcriber.load_model_async called from outside, at any time
CallLoadModelAsync ==
    /\ running
    /\ BagCardinality(threads) < MaxThreads
    /\ threads' = load_model_async(threads)
    /\ signal' = "none"
    /\ UNCHANGED <<keyDown, elapsed, hotkeyVars, recorderVars,
                   transcriberVars, n_model_loaded, muterVars, lifeVars,
                   fineVars, correctorVars, processing, tray_state>>

\* the tail of _on_hotkey_release at any time: _processing = True,
\* set_state(PROCESSING) and the start of a worker thread
StartWorker ==
    /\ running
    /\ BagCardinality(threads) < MaxThreads
    /\ processing' = TRUE
    /\ tray_state' = "PROCESSING"
    /\ threads' = Spawn(threads, Thread("process", "transcribe"))
    /\ signal' = "none"
    /\ UNCHANGED <<keyDown, elapsed, hotkeyVars, recorderVars,
                   transcriberVars, n_model_loaded, muterVars, lifeVars,
                   fineVars, correctorVars>>

\* FlototextApp.stop, and start leaving its wait loop and calling _cleanup
\* while the daemon threads still run
Stop ==
    /\ running
    /\ running' = FALSE
    /\ shutdown_event' = TRUE
    /\ threads' = Spawn(threads, Thread("_cleanup", "recorder"))
    /\ signal' = "none"
    /\ UNCHANGED <<keyDown, elapsed, hotkeyVars, recorderVars,
                   transcriberVars, n_model_loaded, muterVars, fineVars, correctorVars,
                   processing, tray_state>>

\* _cleanup: self._hotkey_manager.stop(); self._audio_recorder.cleanup()
CleanupRecorder(t) ==
    /\ At(t, "_cleanup", "recorder")
    /\ stream' = "None"
    /\ recording' = FALSE
    /\ threads' = Move(t, [t EXCEPT !.pc = "del_model"])
    /\ signal' = "none"
    /\ UNCHANGED <<keyDown, elapsed, hotkeyVars, audio_data, transcriberVars,
                   n_model_loaded, muterVars, lifeVars, fineVars, correctorVars, processing,
                   tray_state>>

\* Transcriber.cleanup: del self._model; self._model = None
CleanupDelModel(t) ==
    /\ At(t, "_cleanup", "del_model")
    /\ model' = "None"
    /\ threads' = Move(t, [t EXCEPT !.pc = "model_loaded"])
    /\ signal' = "none"
    /\ UNCHANGED <<keyDown, elapsed, hotkeyVars, recorderVars, model_loaded,
                   loading, n_model_loaded, muterVars, lifeVars, fineVars, correctorVars,
                   processing, tray_state>>

\* Transcriber.cleanup: self._model_loaded = False, and the rest of _cleanup
CleanupModelLoaded(t) ==
    /\ At(t, "_cleanup", "model_loaded")
    /\ model_loaded' = FALSE
    /\ threads' = Remove(threads, t)
    /\ signal' = "none"
    /\ UNCHANGED <<keyDown, elapsed, hotkeyVars, recorderVars, model,
                   loading, n_model_loaded, muterVars, lifeVars, fineVars, correctorVars,
                   processing, tray_state>>

\* ------------------------------------- AudioRecorder, statement by statement
\* chunks the capture stream delivers to one started stream
MaxDelivered == 2

\* everything outside the recorder
nonRecorderVars == <<keyDown, hotkeyVars, transcriberVars, n_model_loaded,
                     muterVars, lifeVars, correctorVars, processing,
                     tray_state>>

\* the value a recorder call returned
Returned(call, ok, result) == [call |-> call, ok |-> ok, result |-> result]

\* start_recording() and stop_recording() called from any thread, at any time
CallStartRecording ==
    /\ BagCardinality(threads) < MaxThreads
    /\ threads' = Spawn(threads, Thread("start_recording", "lock"))
    /\ signal' = "none"
    /\ UNCHANGED <<nonRecorderVars, recorderVars, fineVars, elapsed>>

CallStopRecording ==
    /\ BagCardinality(threads) < MaxThreads
    /\ threads' = Spawn(threads, Thread("stop_recording", "lock"))
    /\ signal' = "none"
    /\ UNCHANGED <<nonRecorderVars, recorderVars, fineVars, elapsed>>

\* start_recording / stop_recording: with self._lock
AcquireLock(t) ==
    /\ t.fn \in {"start_recording", "stop_recording"} /\ t.pc = "lock"
    /\ ~lock
    /\ lock' = TRUE
    /\ threads' = Move(t, [t EXCEPT !.pc = "check"])
    /\ signal' = "none"
    /\ UNCHANGED <<nonRecorderVars, recorderVars, data_lock, delivered, ret,
                   elapsed>>

\* a variant of start_recording without the "if self._recording" test
StartCheckAlways(t) ==
    /\ At(t, "start_recording", "check")
    /\ threads' = Move(t, [t EXCEPT !.pc = "clear"])
    /\ signal' = "none"
    /\ UNCHANGED <<nonRecorderVars, recorderVars, fineVars, elapsed>>

\* start_recording: if self._recording: return False
StartCheck(t) ==
    /\ At(t, "start_recording", "check")
    /\ IF recording
       THEN /\ lock' = FALSE
            /\ ret' = Returned("start_recording", FALSE, NoResult)
            /\ threads' = Remove(threads, t)
       ELSE /\ threads' = Move(t, [t EXCEPT !.pc = "clear"])
            /\ UNCHANGED <<lock, ret>>
    /\ signal' = "none"
    /\ UNCHANGED <<nonRecorderVars, recorderVars, data_lock, delivered,
                   elapsed>>

\* start_recording: self._audio_data = []; self._start_time = time.time()
StartClear(t) ==
    /\ At(t, "start_recording", "clear")
    /\ audio_data' = <<>>
    /\ elapsed' = 0
    /\ threads' = Move(t, [t EXCEPT !.pc = "open"])
    /\ signal' = "none"
    /\ UNCHANGED <<nonRecorderVars, recording, stream, fineVars>>

\* start_recording: the except branch: self._recording = False; return False
StartFails(t) ==
    /\ recording' = FALSE
    /\ lock' = FALSE
    /\ ret' = Returned("start_recording", FALSE, NoResult)
    /\ threads' = Remove(threads, t)

\* start_recording: self._stream = sd.InputStream(...)
StartOpen(t) ==
    /\ At(t, "start_recording", "open")
    /\ \E raises \in BOOLEAN :
        IF raises
        THEN StartFails(t) /\ UNCHANGED stream
        ELSE /\ stream' = "created"
             /\ threads' = Move(t, [t EXCEPT !.pc = "stream_start"])
             /\ UNCHANGED <<recording, lock, ret>>
    /\ signal' = "none"
    /\ UNCHANGED <<nonRecorderVars, audio_data, data_lock, delivered, elapsed>>

\* start_recording: self._stream.start(); from here on the stream delivers
StartStream(t) ==
    /\ At(t, "start_recording", "stream_start")
    /\ \E raises \in BOOLEAN :
        IF raises
        THEN StartFails(t) /\ UNCHANGED <<stream, delivered>>
        ELSE /\ stream' = "started"
             /\ delivered' = 0
             /\ threads' = Move(t, [t EXCEPT !.pc = "set_recording"])
             /\ UNCHANGED <<recording, lock, ret>>
    /\ signal' = "none"
    /\ UNCHANGED <<nonRecorderVars, audio_data, data_lock, elapsed>>

\* start_recording: self._recording = True; on_start(); return True
StartSetRecording(t) ==
    /\ At(t, "start_recording", "set_recording")
    /\ recording' = TRUE
    /\ lock' = FALSE
    /\ ret' = Returned("start_recording", TRUE, NoResult)
    /\ threads' = Remove(threads, t)
    /\ signal' = "none"
    /\ UNCHANGED <<nonRecorderVars, audio_data, stream, data_lock, delivered,
                   elapsed>>

\* a variant of stop_recording without the "if not self._recording" test
StopCheckAlways(t) ==
    /\ At(t, "stop_recording", "check")
    /\ recording' = FALSE
    /\ elapsed' = 0
    /\ threads' = Move(t, [t EXCEPT !.pc = "stream_stop",
                                    !.result.duration = elapsed])
    /\ signal' = "none"
    /\ UNCHANGED <<nonRecorderVars, audio_data, stream, data_lock, delivered,
                   lock, ret>>

\* a variant of stop_recording that takes self._data_lock before it stops the
\* stream, and so waits for the callback while holding the lock the callback
\* needs
StopCheckTakingDataLock(t) ==
    /\ At(t, "stop_recording", "check")
    /\ IF ~recording
       THEN /\ lock' = FALSE
            /\ ret' = Returned("stop_recording", FALSE, NoneResult)
            /\ threads' = Remove(threads, t)
            /\ UNCHANGED <<recording, elapsed, data_lock>>
       ELSE /\ ~data_lock
            /\ data_lock' = TRUE
            /\ recording' = FALSE
            /\ elapsed' = 0
            /\ threads' = Move(t, [t EXCEPT !.pc = "stream_stop",
                                            !.result.duration = elapsed])
            /\ UNCHANGED <<lock, ret>>
    /\ signal' = "none"
    /\ UNCHANGED <<nonRecorderVars, audio_data, stream, delivered>>

\* stop_recording: if not self._recording: return None; else
\* self._recording = False; duration = time.time() - self._start_time
StopCheck(t) ==
    /\ At(t, "stop_recording", "check")
    /\ IF ~recording
       THEN /\ lock' = FALSE
            /\ ret' = Returned("stop_recording", FALSE, NoneResult)
            /\ threads' = Remove(threads, t)
            /\ UNCHANGED <<recording, elapsed>>
       ELSE /\ recording' = FALSE
            /\ elapsed' = 0
            /\ threads' = Move(t, [t EXCEPT !.pc = "stream_stop",
                                            !.result.duration = elapsed])
            /\ UNCHANGED <<lock, ret>>
    /\ signal' = "none"
    /\ UNCHANGED <<nonRecorderVars, audio_data, stream, data_lock, delivered>>

\* a variant of stop_recording whose stream.stop() returns while the
\* capture thread is still inside the callback
StopStreamNoWait(t) ==
    /\ At(t, "stop_recording", "stream_stop")
    /\ IF stream = "None"
       THEN /\ threads' = Move(t, [t EXCEPT !.pc = "data_lock"])
            /\ UNCHANGED <<stream, lock, ret>>
       ELSE \E raises \in BOOLEAN :
            IF raises
            THEN /\ lock' = FALSE
                 /\ ret' = Returned("stop_recording", FALSE, NoneResult)
                 /\ threads' = Remove(threads, t)
                 /\ UNCHANGED stream
            ELSE /\ stream' = "None"
                 /\ threads' = Move(t, [t EXCEPT !.pc = "data_lock"])
                 /\ UNCHANGED <<lock, ret>>
    /\ signal' = "none"
    /\ UNCHANGED <<nonRecorderVars, recording, audio_data, data_lock,
                   delivered, elapsed>>

\* stop_recording: if self._stream: stop(); close(); self._stream = None.
\* stop() returns once the capture thread is out of the callback; when it
\* raises, the except branch returns None
StopStream(t) ==
    /\ At(t, "stop_recording", "stream_stop")
    /\ IF stream = "None"
       THEN /\ threads' = Move(t, [t EXCEPT !.pc = "data_lock"])
            /\ UNCHANGED <<stream, lock, ret>>
       ELSE \E raises \in BOOLEAN :
            IF raises
            THEN /\ lock' = FALSE
                 /\ ret' = Returned("stop_recording", FALSE, NoneResult)
                 /\ threads' = Remove(threads, t)
                 /\ UNCHANGED stream
            ELSE /\ Running("_audio_callback") = {}
                 /\ stream' = "None"
                 /\ threads' = Move(t, [t EXCEPT !.pc = "data_lock"])
                 /\ UNCHANGED <<lock, ret>>
    /\ signal' = "none"
    /\ UNCHANGED <<nonRecorderVars, recording, audio_data, data_lock,
                   delivered, elapsed>>

\* stop_recording / _audio_callback: with self._data_lock
AcquireDataLock(t) ==
    /\ t.fn \in {"stop_recording", "_audio_callback"} /\ t.pc = "data_lock"
    /\ ~data_lock
    /\ data_lock' = TRUE
    /\ threads' = Move(t, [t EXCEPT !.pc = IF t.fn = "stop_recording"
                                           THEN "drain_test" ELSE "append"])
    /\ signal' = "none"
    /\ UNCHANGED <<nonRecorderVars, recorderVars, lock, delivered, ret,
                   elapsed>>

\* a variant of stop_recording that returns None for an empty buffer
StopDrainTestNone(t) ==
    /\ At(t, "stop_recording", "drain_test")
    /\ IF audio_data = <<>>
       THEN /\ data_lock' = FALSE
            /\ lock' = FALSE
            /\ ret' = Returned("stop_recording", FALSE, NoneResult)
            /\ threads' = Remove(threads, t)
       ELSE /\ threads' = Move(t, [t EXCEPT !.pc = "concat"])
            /\ UNCHANGED <<data_lock, lock, ret>>
    /\ signal' = "none"
    /\ UNCHANGED <<nonRecorderVars, recorderVars, delivered, elapsed>>

\* stop_recording: if not self._audio_data: return the empty invalid result
StopDrainTest(t) ==
    /\ At(t, "stop_recording", "drain_test")
    /\ IF audio_data = <<>>
       THEN /\ data_lock' = FALSE
            /\ lock' = FALSE
            /\ ret' = Returned("stop_recording", TRUE,
                               RecordingResult(<<>>, 0, FALSE))
            /\ threads' = Remove(threads, t)
       ELSE /\ threads' = Move(t, [t EXCEPT !.pc = "concat"])
            /\ UNCHANGED <<data_lock, lock, ret>>
    /\ signal' = "none"
    /\ UNCHANGED <<nonRecorderVars, recorderVars, delivered, elapsed>>

\* stop_recording: audio_data = np.concatenate(self._audio_data), and the
\* end of the with self._data_lock block
StopConcat(t) ==
    /\ At(t, "stop_recording", "concat")
    /\ data_lock' = FALSE
    /\ threads' = Move(t, [t EXCEPT !.pc = "return",
                                    !.result.audio = audio_data])
    /\ signal' = "none"
    /\ UNCHANGED <<nonRecorderVars, recorderVars, lock, delivered, ret,
                   elapsed>>

\* stop_recording: is_valid = ...; return RecordingResult(...)
StopReturn(t) ==
    /\ At(t, "stop_recording", "return")
    /\ lock' = FALSE
    /\ ret' = Returned("stop_recording", TRUE,
                       RecordingResult(t.result.audio, t.result.duration,
                                       IsValid(t.result.duration)))
    /\ threads' = Remove(threads, t)
    /\ signal' = "none"
    /\ UNCHANGED <<nonRecorderVars, recorderVars, data_lock, delivered,
                   elapsed>>

\* the capture thread of a started stream calls _audio_callback(indata), one
\* call at a time
Deliver ==
    /\ stream = "started"
    /\ delivered < MaxDelivered
    /\ Running("_audio_callback") = {}
    /\ delivered' = delivered + 1
    /\ threads' = Spawn(threads, [Thread("_audio_callback", "test")
                                    EXCEPT !.chunk = delivered + 1])
    /\ signal' = "none"
    /\ UNCHANGED <<nonRecorderVars, recorderVars, lock, data_lock, ret,
                   elapsed>>

\* _audio_callback: if self._recording
CallbackTest(t) ==
    /\ At(t, "_audio_callback", "test")
    /\ threads' = IF recording THEN Move(t, [t EXCEPT !.pc = "data_lock"])
                  ELSE Remove(threads, t)
    /\ signal' = "none"
    /\ UNCHANGED <<nonRecorderVars, recorderVars, fineVars, elapsed>>

\* _audio_callback: self._audio_data.append(indata.copy()), and the end of
\* the with self._data_lock block
CallbackAppend(t) ==
    /\ At(t, "_audio_callback", "append")
    /\ audio_data' = Append(audio_data, t.chunk)
    /\ data_lock' = FALSE
    /\ threads' = Remove(threads, t)
    /\ signal' = "none"
    /\ UNCHANGED <<nonRecorderVars, recording, stream, lock, delivered, ret,
                   elapsed>>

\* time passes from self._start_time = time.time() on
TickR ==
    /\ \/ recording
       \/ \E t \in Running("start_recording") :
            t.pc \in {"open", "stream_start", "set_recording"}
    /\ elapsed < MaxElapsed
    /\ elapsed' = elapsed + 1
    /\ signal' = "none"
    /\ UNCHANGED <<nonRecorderVars, recorderVars, fineVars, threads>>

\* ------------------------- _process_transcription, statement by statement
\* the texts the model call returns: words of one letter and spaces
TranscribedChars == {"a", "A", " "}
RawTexts == UNION {[1..n -> TranscribedChars] : n \in 0..MaxLen}

\* a call the worker made: the function, its text argument, whether it
\* took effect (the row was written, the text pasted or left on the
\* clipboard)
Call(fn, text, ok) == [fn |-> fn, text |-> text, ok |-> ok]

\* _process_transcription called from outside while the application runs
CallProcessTranscription ==
    /\ running
    /\ BagCardinality(threads) < MaxThreads
    /\ Count("_process_transcription") < MaxWorkers
    /\ \E duration \in 1..MaxElapsed :
        threads' = Spawn(threads,
            [Thread("_process_transcription", "transcribe")
                EXCEPT !.duration = duration])
    /\ signal' = "none"
    /\ UNCHANGED <<nonRecorderVars, recorderVars, fineVars, elapsed>>

\* localization.asr_language, the language asked for
asr_language == "asr_language"

\* what self._model.transcribe does: return a text with the language
\* detected ("" for none), return no result, raise
TranscribeOutcomes ==
    [kind : {"ok"}, text : RawTexts, language : {"", "English"}]
        \cup {[kind |-> k, text |-> <<>>, language |-> ""] :
                 k \in {"none", "oom", "error"}}

\* _process_transcription: result = self._transcriber.transcribe(...).  Not
\* loaded: the failed result; a raising model call: on_error and the failed
\* result; otherwise results[0].text.strip(), or "" without results, and
\* results[0].language or localization.asr_language
ProcTranscribe(t) ==
    /\ At(t, "_process_transcription", "transcribe")
    /\ \E out \in TranscribeOutcomes :
        LET tr == IF ~model_loaded THEN "model_not_loaded"
                  ELSE IF model = "None" THEN "error"
                  ELSE IF out.kind = "none" THEN "ok"
                  ELSE out.kind
            t2 == [t EXCEPT !.pc = "check_success", !.tr = tr,
                            !.tr_text = IF tr = "ok" THEN strip(out.text)
                                        ELSE <<>>,
                            !.language = IF tr = "ok" /\ out.language # ""
                                         THEN out.language
                                         ELSE asr_language]
        IN IF tr \in {"oom", "error"}
           THEN on_transcription_error(Move(t, t2))
           ELSE /\ threads' = Move(t, t2)
                /\ signal' = "none"
                /\ UNCHANGED tray_state
    /\ UNCHANGED <<keyDown, elapsed, hotkeyVars, recorderVars,
                   transcriberVars, n_model_loaded, muterVars, lifeVars,
                   fineVars, correctorVars, processing>>

\* _process_transcription: if not result.success: the error, return
ProcCheckSuccess(t) ==
    /\ At(t, "_process_transcription", "check_success")
    /\ IF t.tr # "ok"
       THEN on_transcription_error(Remove(threads, t))
       ELSE /\ threads' = Move(t, [t EXCEPT !.pc = "check_empty"])
            /\ signal' = "none"
            /\ UNCHANGED tray_state
    /\ UNCHANGED <<keyDown, elapsed, hotkeyVars, recorderVars,
                   transcriberVars, n_model_loaded, muterVars, lifeVars,
                   fineVars, correctorVars, processing>>

\* _process_transcription: if not result.text.strip(): set_state(IDLE),
\* return
ProcCheckEmpty(t) ==
    /\ At(t, "_process_transcription", "check_empty")
    /\ IF strip(t.tr_text) = <<>>
       THEN /\ tray_state' = "IDLE"
            /\ threads' = Remove(threads, t)
       ELSE /\ threads' = Move(t, [t EXCEPT !.pc = "correct"])
            /\ UNCHANGED tray_state
    /\ signal' = "none"
    /\ UNCHANGED <<keyDown, elapsed, hotkeyVars, recorderVars,
                   transcriberVars, n_model_loaded, muterVars, lifeVars,
                   fineVars, correctorVars, processing>>

\* _process_transcription: text = self._text_corrector.correct(
\* result.text.strip())
ProcCorrect(t) ==
    /\ At(t, "_process_transcription", "correct")
    /\ LET arg == strip(t.tr_text)
       IN threads' = Move(t, [t EXCEPT !.pc = "save",
                                       !.text = correct(arg),
                                       !.calls = Append(@, Call("correct", arg, TRUE))])
    /\ signal' = "none"
    /\ UNCHANGED <<nonRecorderVars, recorderVars, fineVars, elapsed>>

\* a variant of _process_transcription that saves result.text
ProcSaveUncorrected(t) ==
    /\ At(t, "_process_transcription", "save")
    /\ \E raises \in BOOLEAN :
        threads' = IF raises THEN Remove(threads, t)
                   ELSE Move(t, [t EXCEPT !.pc = "insert",
                                          !.saved = Transcription(t.tr_text,
                                              t.language, t.duration,
                                              Len(split(t.tr_text))),
                                          !.calls = Append(@,
                                              Call("save_transcription", t.tr_text, TRUE))])
    /\ signal' = "none"
    /\ UNCHANGED <<nonRecorderVars, recorderVars, fineVars, elapsed>>

\* _process_transcription: word_count = len(text.split());
\* self._database.save_transcription(Transcription(text=text,
\* language=result.language, duration_seconds=duration, ...,
\* word_count=word_count)); an exception of the database ends the call
ProcSave(t) ==
    /\ At(t, "_process_transcription", "save")
    /\ \E raises \in BOOLEAN :
        threads' = IF raises THEN Remove(threads, t)
                   ELSE Move(t, [t EXCEPT !.pc = "insert",
                                          !.saved = Transcription(t.text,
                                              t.language, t.duration,
                                              Len(split(t.text))),
                                          !.calls = Append(@,
                                              Call("save_transcription", t.text, TRUE))])
    /\ signal' = "none"
    /\ UNCHANGED <<nonRecorderVars, recorderVars, fineVars, elapsed>>

\* TextInserter.insert_text: whether text was pasted, when the clipboard
\* and the key simulation work (works) or raise
insert_text(text, works) == text # <<>> /\ works

\* TextInserter.copy_to_clipboard: whether text is on the clipboard
copy_to_clipboard(text, works) == text # <<>> /\ works

\* _process_transcription: if self._text_inserter.insert_text(text): the
\* success sound and notification
ProcInsert(t) ==
    /\ At(t, "_process_transcription", "insert")
    /\ \E works \in BOOLEAN :
        LET pasted == insert_text(t.text, works)
        IN /\ threads' = Move(t, [t EXCEPT
                            !.pc = IF pasted THEN "set_idle" ELSE "fallback",
                            !.calls = Append(@, Call("insert_text", t.text, pasted))])
           /\ signal' = IF pasted THEN "pasted" ELSE "none"
    /\ UNCHANGED <<nonRecorderVars, recorderVars, fineVars, elapsed>>

\* _process_transcription, else: self._text_inserter.copy_to_clipboard(text),
\* the success sound and the clipboard notification
ProcFallback(t) ==
    /\ At(t, "_process_transcription", "fallback")
    /\ \E works \in BOOLEAN :
        threads' = Move(t, [t EXCEPT
                     !.pc = "set_idle",
                     !.calls = Append(@, Call("copy_to_clipboard", t.text,
                                              copy_to_clipboard(t.text, works)))])
    /\ signal' = "clipboard"
    /\ UNCHANGED <<nonRecorderVars, recorderVars, fineVars, elapsed>>

\* _process_transcription: self._tray_app.set_state(AppState.IDLE)
ProcSetIdle(t) ==
    /\ At(t, "_process_transcription", "set_idle")
    /\ tray_state' = "IDLE"
    /\ threads' = Remove(threads, t)
    /\ signal' = "none"
    /\ UNCHANGED <<keyDown, elapsed, hotkeyVars, recorderVars,
                   transcriberVars, n_model_loaded, muterVars, lifeVars,
                   fineVars, correctorVars, processing>>

\* ----------------------------------------------- TextCorrector, its calls
\* correct(text) called from any thread, at any time
CallCorrect ==
    /\ BagCardinality(threads) < MaxThreads
    /\ Count("correct") < MaxCorrect
    /\ \E text \in Texts :
        threads' = Spawn(threads, [Thread("correct", "test") EXCEPT !.text = text])
    /\ signal' = "none"
    /\ UNCHANGED <<nonRecorderVars, recorderVars, fineVars, elapsed>>

\* a variant of the test of correct that does not look at the rules
CorrectTestPatternOnly(t) ==
    /\ At(t, "correct", "test")
    /\ threads' = IF t.text = <<>> \/ ~pattern.compiled
                  THEN Move(t, [t EXCEPT !.pc = "done", !.returns = t.text])
                  ELSE Move(t, [t EXCEPT !.pc = "sub"])
    /\ signal' = "none"
    /\ UNCHANGED <<nonRecorderVars, recorderVars, fineVars, elapsed>>

\* correct: if not text or not self._pattern or not self._corrections:
\* return text
CorrectTest(t) ==
    /\ At(t, "correct", "test")
    /\ threads' = IF t.text = <<>> \/ ~pattern.compiled \/ corrections = <<>>
                  THEN Move(t, [t EXCEPT !.pc = "done", !.returns = t.text])
                  ELSE Move(t, [t EXCEPT !.pc = "sub"])
    /\ signal' = "none"
    /\ UNCHANGED <<nonRecorderVars, recorderVars, fineVars, elapsed>>

\* correct: return self._pattern.sub(replace_match, text), with
\* replace_match reading self._corrections; an AttributeError when
\* self._pattern is None by now.  One step: the rules change in one
\* assignment of another thread
CorrectSub(t) ==
    /\ At(t, "correct", "sub")
    /\ threads' =
         IF pattern.compiled
         THEN Move(t, [t EXCEPT
                 !.pc = "done",
                 !.returns = sub(corrections, t.text,
                                 finditer(pattern.alternatives, t.text, 1), 1)])
         ELSE Move(t, [t EXCEPT !.pc = "raised"])
    /\ signal' = "none"
    /\ UNCHANGED <<nonRecorderVars, recorderVars, fineVars, elapsed>>

\* the caller of correct takes the text returned, or the exception
CorrectReturn(t) ==
    /\ t.fn = "correct" /\ t.pc \in {"done", "raised"}
    /\ threads' = Remove(threads, t)
    /\ signal' = "none"
    /\ UNCHANGED <<nonRecorderVars, recorderVars, fineVars, elapsed>>

\* ------------------------------------------ TextCorrector, the dictionary
\* self._corrections[key] = value: the value of a key the dict holds is
\* replaced in place, a new key goes to its end
dict_set(rules, key, value) ==
    IF \E n \in 1..Len(rules) : rules[n][1] = key
    THEN [n \in 1..Len(rules) |->
            IF rules[n][1] = key THEN <<key, value>> ELSE rules[n]]
    ELSE Append(rules, <<key, value>>)

\* del self._corrections[key]
dict_del(rules, key) ==
    LET Other(rule) == rule[1] # key
    IN SelectSeq(rules, Other)

\* what is typed as the heard phrase and as its spelling into the dictionary
\* editor, or into custom_words.json with the editor main.py opens on it
TypedKeys == {<<"a">>, <<"A">>, <<"a", "b", "a">>}
TypedSpellings == {<<"b">>, <<"a">>}

\* custom_words.json as it can be found: rules as typed, no key twice
EditedFiles ==
    {file \in Files :
        \A n \in 1..Len(file) :
            file[n][1] \in TypedKeys /\ file[n][2] \in TypedSpellings}

\* the variables that are not those of the TextCorrector, threads and signal
\* apart
nonCorrectorVars ==
    <<keyDown, hotkeyVars, recorderVars, transcriberVars, n_model_loaded,
      muterVars, lifeVars, processing, tray_state, fineVars, elapsed>>

\* the calls of reload, add_correction and remove_correction in flight
Editors ==
    Count("reload") + Count("add_correction") + Count("remove_correction")

\* correct(text) called on a text that is one of the heard phrases
CallCorrectHeard ==
    /\ BagCardinality(threads) < MaxThreads
    /\ Count("correct") < MaxCorrect
    /\ \E text \in HeardKeys :
        threads' = Spawn(threads, [Thread("correct", "test") EXCEPT !.text = text])
    /\ signal' = "none"
    /\ UNCHANGED <<nonRecorderVars, recorderVars, fineVars, elapsed>>

\* reload() -> _load_dictionary, up to the assignment of self._corrections:
\* there is no file (a default one is written and nothing else changes), or
\* reading it raises (self._corrections = {}), or self._corrections becomes
\* the rules of the file, which is whatever was last written to it, by
\* _save_dictionary or by the editor main.py opens on it
CallReload ==
    /\ BagCardinality(threads) < MaxThreads
    /\ Editors < MaxEditors
    /\ \/ /\ threads' = Spawn(threads, Thread("reload", "done"))
          /\ UNCHANGED corrections
       \/ /\ threads' = Spawn(threads, Thread("reload", "done"))
          /\ corrections' = <<>>
       \/ \E file \in EditedFiles :
          /\ threads' = Spawn(threads, Thread("reload", "build"))
          /\ corrections' = file
    /\ signal' = "none"
    /\ UNCHANGED <<nonCorrectorVars, pattern>>

\* _load_dictionary: self._build_pattern()
ReloadBuild(t) ==
    /\ At(t, "reload", "build")
    /\ pattern' = build_pattern(corrections)
    /\ threads' = Move(t, [t EXCEPT !.pc = "done"])
    /\ signal' = "none"
    /\ UNCHANGED <<nonCorrectorVars, corrections>>

\* add_correction(wrong, correct), its first statement:
\* self._corrections[wrong.lower()] = correct
CallAddCorrection ==
    /\ BagCardinality(threads) < MaxThreads
    /\ Editors < MaxEditors
    /\ \E wrong \in TypedKeys, value \in TypedSpellings :
        /\ Len(dict_set(corrections, lower(wrong), value)) <= MaxRules
        /\ corrections' = dict_set(corrections, lower(wrong), value)
    /\ threads' = Spawn(threads, [Thread("add_correction", "save")
                                    EXCEPT !.before = corrections])
    /\ signal' = "none"
    /\ UNCHANGED <<nonCorrectorVars, pattern>>

\* add_correction: self._save_dictionary() writes the file, or raises and
\* add_correction returns False from its except clause
AddSave(t) ==
    /\ At(t, "add_correction", "save")
    /\ \E saved \in BOOLEAN :
        threads' = Move(t, [t EXCEPT !.pc = IF saved THEN "build"
                                                      ELSE "failed"])
    /\ signal' = "none"
    /\ UNCHANGED <<nonRecorderVars, recorderVars, fineVars, elapsed>>

\* add_correction: self._build_pattern(); return True
AddBuild(t) ==
    /\ At(t, "add_correction", "build")
    /\ pattern' = build_pattern(corrections)
    /\ threads' = Move(t, [t EXCEPT !.pc = "done"])
    /\ signal' = "none"
    /\ UNCHANGED <<nonCorrectorVars, corrections>>

\* remove_correction(wrong), up to the del: if wrong.lower() in
\* self._corrections: del self._corrections[wrong.lower()]; else return
\* False
CallRemoveCorrection ==
    /\ BagCardinality(threads) < MaxThreads
    /\ Editors < MaxEditors
    /\ \E wrong \in TypedKeys :
        IF \E n \in 1..Len(corrections) : corrections[n][1] = lower(wrong)
        THEN /\ corrections' = dict_del(corrections, lower(wrong))
             /\ threads' = Spawn(threads, [Thread("remove_correction", "save")
                                             EXCEPT !.before = corrections])
        ELSE /\ UNCHANGED corrections
             /\ threads' = Spawn(threads, Thread("remove_correction", "absent"))
    /\ signal' = "none"
    /\ UNCHANGED <<nonCorrectorVars, pattern>>

\* remove_correction: self._save_dictionary() writes the file, or raises
\* and remove_correction returns False from its except clause
RemoveSave(t) ==
    /\ At(t, "remove_correction", "save")
    /\ \E saved \in BOOLEAN :
        threads' = Move(t, [t EXCEPT !.pc = IF saved THEN "build"
                                                      ELSE "failed"])
    /\ signal' = "none"
    /\ UNCHANGED <<nonRecorderVars, recorderVars, fineVars, elapsed>>

\* remove_correction: self._build_pattern(); return True
RemoveBuild(t) ==
    /\ At(t, "remove_correction", "build")
    /\ pattern' = build_pattern(corrections)
    /\ threads' = Move(t, [t EXCEPT !.pc = "done"])
    /\ signal' = "none"
    /\ UNCHANGED <<nonCorrectorVars, corrections>>

\* reload, add_correction or remove_correction returns to its caller: None
\* from reload, True at "done" and False at "failed" (the save raised) and
\* at "absent" (nothing to remove) from the other two
EditorReturn(t) ==
    /\ t.fn \in {"reload", "add_correction", "remove_correction"}
    /\ t.pc \in {"done", "failed", "absent"}
    /\ threads' = Remove(threads, t)
    /\ signal' = "none"
    /\ UNCHANGED <<nonRecorderVars, recorderVars, fineVars, elapsed>>

\* ----------------------------------------------------------- specifications
\* a step of the worker thread t
WorkerStep(t) == ProcessTranscribe(t) \/ ProcessFinish(t)

Next ==
    \/ Start
    \/ \E key \in Keys : KeyDownEvent(key)
    \/ \E key \in Keys : KeyUpEvent(key)
    \/ AudioCallback
    \/ Tick
    \/ \E t \in BagToSet(threads) : PressChecks(t)
    \/ \E t \in BagToSet(threads) : PressStartRecording(t)
    \/ \E t \in BagToSet(threads) : PressSetState(t)
    \/ \E t \in BagToSet(threads) : ReleaseCheckRecording(t)
    \/ \E t \in BagToSet(threads) : ReleaseStopRecording(t)
    \/ \E t \in BagToSet(threads) : ReleaseUnmute(t)
    \/ \E t \in BagToSet(threads) : ReleaseDispatch(t)
    \/ \E t \in BagToSet(threads) : ProcessTranscribe(t)
    \/ \E t \in BagToSet(threads) : ProcessFinish(t)
    \/ \E t \in BagToSet(threads) : LoadModelLock(t)
    \/ \E t \in BagToSet(threads) : LoadModelLoad(t)
    \/ \E t \in BagToSet(threads) : LoadModelLoaded(t)
    \/ \E t \in BagToSet(threads) : LoadModelError(t)
    \/ \E t \in BagToSet(threads) : ResetWake(t)
    \/ \E t \in BagToSet(threads) : ResetSetIdle(t)

Spec == Init /\ [][Next]_vars

\* a worker thread that was started is scheduled until it ends
FairSpec == Spec /\ WF_vars(\E t \in BagToSet(threads) : WorkerStep(t))

NextT ==
    \/ Start
    \/ CallLoadModelAsync
    \/ StartWorker
    \/ Stop
    \/ \E t \in BagToSet(threads) : ProcessTranscribe(t)
    \/ \E t \in BagToSet(threads) : ProcessFinish(t)
    \/ \E t \in BagToSet(threads) : LoadModelLock(t)
    \/ \E t \in BagToSet(threads) : LoadModelLoad(t)
    \/ \E t \in BagToSet(threads) : LoadModelLoaded(t)
    \/ \E t \in BagToSet(threads) : LoadModelError(t)
    \/ \E t \in BagToSet(threads) : ResetWake(t)
    \/ \E t \in BagToSet(threads) : ResetSetIdle(t)
    \/ \E t \in BagToSet(threads) : CleanupRecorder(t)
    \/ \E t \in BagToSet(threads) : CleanupDelModel(t)
    \/ \E t \in BagToSet(threads) : CleanupModelLoaded(t)

NextH ==
    \/ Next
    \/ Enable
    \/ Disable

SpecH == Init /\ [][NextH]_vars

NextE ==
    \/ Next
    \/ \E t \in BagToSet(threads) : HandlerRaises(t)
    \/ \E t \in BagToSet(threads) : HandlerExit(t)

SpecE == Init /\ [][NextE]_vars

NextM ==
    \/ Next
    \/ \E e \in BOOLEAN : OnToggleMute(e)

SpecM == Init /\ [][NextM]_vars

SpecT == Init /\ [][NextT]_vars

NextR ==
    \/ CallStartRecording
    \/ CallStopRecording
    \/ Deliver
    \/ TickR
    \/ \E t \in BagToSet(threads) : AcquireLock(t)
    \/ \E t \in BagToSet(threads) : StartCheck(t)
    \/ \E t \in BagToSet(threads) : StartClear(t)
    \/ \E t \in BagToSet(threads) : StartOpen(t)
    \/ \E t \in BagToSet(threads) : StartStream(t)
    \/ \E t \in BagToSet(threads) : StartSetRecording(t)
    \/ \E t \in BagToSet(threads) : StopCheck(t)
    \/ \E t \in BagToSet(threads) : StopStream(t)
    \/ \E t \in BagToSet(threads) : AcquireDataLock(t)
    \/ \E t \in BagToSet(threads) : StopDrainTest(t)
    \/ \E t \in BagToSet(threads) : StopConcat(t)
    \/ \E t \in BagToSet(threads) : StopReturn(t)
    \/ \E t \in BagToSet(threads) : CallbackTest(t)
    \/ \E t \in BagToSet(threads) : CallbackAppend(t)

SpecR == Init /\ [][NextR]_vars

\* a step of the recorder call or callback t
RecorderStep(t) ==
    \/ AcquireLock(t)
    \/ StartCheck(t)
    \/ StartClear(t)
    \/ StartOpen(t)
    \/ StartStream(t)
    \/ StartSetRecording(t)
    \/ StopCheck(t)
    \/ StopStream(t)
    \/ AcquireDataLock(t)
    \/ StopDrainTest(t)
    \/ StopConcat(t)
    \/ StopReturn(t)
    \/ CallbackTest(t)
    \/ CallbackAppend(t)

RecorderFns == {"start_recording", "stop_recording", "_audio_callback"}

\* the threads of the recorder are scheduled, and a thread blocked on a lock
\* that is released again and again gets it
FairSpecR ==
    SpecR /\ \A fn \in RecorderFns :
                SF_vars(\E t \in Running(fn) : RecorderStep(t))

NextP ==
    \/ Start
    \/ CallProcessTranscription
    \/ \E t \in BagToSet(threads) : LoadModelLock(t)
    \/ \E t \in BagToSet(threads) : LoadModelLoad(t)
    \/ \E t \in BagToSet(threads) : LoadModelLoaded(t)
    \/ \E t \in BagToSet(threads) : LoadModelError(t)
    \/ \E t \in BagToSet(threads) : ResetWake(t)
    \/ \E t \in BagToSet(threads) : ResetSetIdle(t)
    \/ \E t \in BagToSet(threads) : ProcTranscribe(t)
    \/ \E t \in BagToSet(threads) : ProcCheckSuccess(t)
    \/ \E t \in BagToSet(threads) : ProcCheckEmpty(t)
    \/ \E t \in BagToSet(threads) : ProcCorrect(t)
    \/ \E t \in BagToSet(threads) : ProcSave(t)
    \/ \E t \in BagToSet(threads) : ProcInsert(t)
    \/ \E t \in BagToSet(threads) : ProcFallback(t)
    \/ \E t \in BagToSet(threads) : ProcSetIdle(t)

SpecP == Init /\ [][NextP]_vars

NextC ==
    \/ CallCorrect
    \/ \E t \in BagToSet(threads) : CorrectTest(t)
    \/ \E t \in BagToSet(threads) : CorrectSub(t)
    \/ \E t \in BagToSet(threads) : CorrectReturn(t)

SpecC == InitC /\ [][NextC]_vars

NextD ==
    \/ CallCorrectHeard
    \/ \E t \in BagToSet(threads) : CorrectTest(t)
    \/ \E t \in BagToSet(threads) : CorrectSub(t)
    \/ \E t \in BagToSet(threads) : CorrectReturn(t)
    \/ CallReload
    \/ \E t \in BagToSet(threads) : ReloadBuild(t)
    \/ CallAddCorrection
    \/ \E t \in BagToSet(threads) : AddSave(t)
    \/ \E t \in BagToSet(threads) : AddBuild(t)
    \/ CallRemoveCorrection
    \/ \E t \in BagToSet(threads) : RemoveSave(t)
    \/ \E t \in BagToSet(threads) : RemoveBuild(t)
    \/ \E t \in BagToSet(threads) : EditorReturn(t)

InitD == InitApp /\ \E file \in EditedFiles : Loaded(file)

SpecD == InitD /\ [][NextD]_vars

\* --------------------------------------------------------------- properties
\* the thread t of the bag takes a step: a step of a thread removes or changes
\* its record, and no step adds a record equal to one it removes
Steps(t) == CopiesIn(t, threads') < CopiesIn(t, threads)

\* the edge handlers in flight
Handlers == Running("_on_hotkey_press") \cup Running("_on_hotkey_release")

\* every dispatched press has its release, and both handlers have finished
CyclesDone == ~is_pressed /\ Handlers = {}

\* C1: at most one transcription worker runs at any time: there are never two
\* concurrent executions of process / _process_transcription.
C1_AtMostOneWorker == Count("process") <= 1

\* C2: a press handler that makes its tests while _processing is set ends
\* there: it does not reach start_recording, the recorder is unchanged and
\* _processing is unchanged.
C2_PressRejectedWhileProcessing ==
    [][\A t \in BagToSet(threads) :
         (At(t, "_on_hotkey_press", "checks") /\ Steps(t) /\ processing)
         => /\ threads' = Remove(threads, t)
            /\ UNCHANGED <<recorderVars, processing>>]_vars

\* a press was just rejected for _processing while the recorder is idle
C2_Witness == signal = "processing" /\ processing /\ ~recording

\* the listener dispatched on_key_press / on_key_release in this step
PressDispatched ==
    threads' = Spawn(threads, Thread("_on_hotkey_press", "checks"))
ReleaseDispatched ==
    threads' = Spawn(threads, Thread("_on_hotkey_release", "check_recording"))

\* C3: with the detector enabled, on_key_press is dispatched exactly at a
\* physical press (a key-down while the key was up), on_key_release exactly
\* at a physical release (a key-up while the key was down), never at a
\* duplicate, and the two alternate starting with a press.
C3_OneEdgePerPhysicalEdge ==
    [][/\ PressDispatched <=> (~keyDown /\ keyDown')
       /\ ReleaseDispatched <=> (keyDown /\ ~keyDown')
       /\ PressDispatched => lastEdge \in {"none", "release"}
       /\ ReleaseDispatched => lastEdge = "press"]_vars

\* press, release, press were dispatched, the key is held (and repeats)
C3_Witness ==
    /\ is_pressed /\ keyDown
    /\ Count("_on_hotkey_press") = 2
    /\ Count("_on_hotkey_release") = 1

\* C4: once _processing is set it is eventually cleared, however the
\* background work ends.
C4_ProcessingEventuallyCleared == processing ~> ~processing

\* a worker whose inference failed is about to end while _processing is set
C4_Witness ==
    /\ processing
    /\ \E t \in Running("process") : t.pc = "after_transcribe" /\ t.tr = "oom"

\* neither edge handler nor worker in the bag
NoSessionThread(bag) ==
    \A t \in BagToSet(bag) :
        t.fn \notin {"_on_hotkey_press", "_on_hotkey_release", "process"}

\* this step is a session-level error: start_recording returned False, the
\* release handler saw stop_recording return None, or a worker ends after a
\* failed inference
SessionError ==
    \E t \in BagToSet(threads) :
        /\ Steps(t)
        /\ \/ /\ At(t, "_on_hotkey_press", "start_recording")
              /\ CopiesIn([t EXCEPT !.pc = "set_state"], threads')
                    = CopiesIn([t EXCEPT !.pc = "set_state"], threads)
           \/ At(t, "_on_hotkey_release", "dispatch") /\ t.result.status = "None"
           \/ At(t, "process", "after_transcribe") /\ Failed(t.tr)

\* C5: no session-level error leaves the controller stuck: when the error is
\* the last step of the handlers and workers and the key is up, the recorder
\* is not recording and _processing is False afterwards.
C5_NoErrorLeavesStuck ==
    [][(SessionError /\ NoSessionThread(threads') /\ ~is_pressed')
       => (~recording' /\ ~processing')]_vars

\* C6: once the handlers of every dispatched press and release have
\* finished, the recorder is not recording.
C6_StoppedAfterCycle == CyclesDone => ~recording

\* C7: a press handler that makes its tests while the transcriber is not
\* ready ends there with the not-ready signal: the recorder, _processing, the
\* tray state and the muter are unchanged.
C7_PressRejectedNotReady ==
    [][\A t \in BagToSet(threads) :
         (At(t, "_on_hotkey_press", "checks") /\ Steps(t) /\ ~model_loaded)
         => /\ threads' = Remove(threads, t)
            /\ signal' = "not_ready"
            /\ UNCHANGED <<recorderVars, processing, tray_state, muterVars>>]_vars

\* a press was just rejected for a transcriber that is not ready
C7_Witness == signal = "not_ready" /\ ~model_loaded /\ ~recording

\* C8: a recording that has no audio or lasted less than the minimum is
\* returned invalid, and the release handler that gets an invalid result ends
\* with the too-short signal and the tray IDLE: it starts no worker (no
\* transcribe) and does not set _processing.
C8_TooShortNoInference ==
    /\ [](\A t \in BagToSet(threads) :
            t.result.status = "result"
            => (t.result.is_valid
                  <=> (t.result.audio # <<>> /\ t.result.duration >= MinDuration)))
    /\ [][\A t \in BagToSet(threads) :
            (/\ At(t, "_on_hotkey_release", "dispatch") /\ Steps(t)
             /\ t.result.status = "result" /\ ~t.result.is_valid)
            => /\ threads' = Remove(threads, t)
               /\ signal' = "too_short"
               /\ tray_state' = "IDLE"
               /\ UNCHANGED processing]_vars

\* a release handler just ended with the too-short signal
C8_Witness == signal = "too_short" /\ tray_state = "IDLE" /\ ~recording

\* C9: transcribe called while the model is not loaded returns the
\* model-not-loaded failure and makes no call on the underlying model.
C9_NotLoadedFails ==
    [][\A t \in BagToSet(threads) :
         (At(t, "process", "transcribe") /\ Steps(t) /\ ~model_loaded)
         => LET t2 == [t EXCEPT !.pc = "after_transcribe",
                                !.tr = "model_not_loaded", !.called = FALSE]
            IN CopiesIn(t2, threads') > CopiesIn(t2, threads)]_vars

\* transcribe returned the model-not-loaded failure without a model call
C9_Witness ==
    /\ ~model_loaded
    /\ \E t \in Running("process") : t.tr = "model_not_loaded" /\ ~t.called

\* C10: at most one model load runs at a time and on_model_loaded fires at
\* most once, for any sequence of load_model_async calls.
C10_AtMostOneLoad ==
    /\ n_model_loaded <= 1
    /\ BagCardinality([t \in {u \in Running("_load_model") : u.pc = "load"}
                         |-> threads[t]]) <= 1

\* C11: a load attempt ends in exactly one of two outcomes: it fires
\* on_model_loaded and ends with the service Ready (is_ready, not
\* is_loading), or it fires on_error and ends with the service not Ready
\* (not is_ready, not is_loading).
C11_LoadEndsReadyOrFailed ==
    [][\A t \in BagToSet(threads) :
         /\ (At(t, "_load_model", "on_model_loaded")
               /\ threads' = Remove(threads, t))
            => (model_loaded' /\ ~loading' /\ signal' = "model_loaded")
         /\ (At(t, "_load_model", "on_error") /\ Steps(t))
            => (~model_loaded' /\ ~loading' /\ signal' = "error")]_vars

\* C12: start_recording called while a recording is active returns False and
\* leaves the recorder unchanged: the buffered chunks, the start timestamp,
\* the stream and the recording flag.
C12_StartWhileActive ==
    [][\A t \in BagToSet(threads) :
         (t.fn = "start_recording" /\ Steps(t) /\ recording)
         => /\ UNCHANGED <<recorderVars, elapsed, delivered>>
            /\ t.pc = "check"
               => /\ ret' = Returned("start_recording", FALSE, NoResult)
                  /\ threads' = Remove(threads, t)]_vars

\* start_recording just returned False on an active recording with a chunk
\* buffered
C12_Witness ==
    /\ ret = Returned("start_recording", FALSE, NoResult)
    /\ recording /\ audio_data # <<>>

\* stop_recording returns a result (not None) in this step of thread t
StopReturnsResult(t) ==
    /\ t.fn = "stop_recording" /\ Steps(t)
    /\ threads' = Remove(threads, t)
    /\ ret'.ok

C14_NoAudioInvalidResult ==
    [][\A t \in BagToSet(threads) :
         (At(t, "stop_recording", "drain_test") /\ Steps(t)
            /\ audio_data = <<>>)
         => /\ threads' = Remove(threads, t)
            /\ ret' = Returned("stop_recording", TRUE,
                               RecordingResult(<<>>, 0, FALSE))]_vars

\* a stop_recording that measured a duration above the minimum is about to
\* drain an empty buffer
C14_Witness ==
    /\ audio_data = <<>>
    /\ \E t \in Running("stop_recording") :
         t.pc = "drain_test" /\ t.result.duration >= MinDuration

\* C15: stop_recording called while no recording is active changes no
\* recorder state (flag, buffer, stream, start timestamp, chunk count) and
\* returns None.
C15_StopWhenIdle ==
    [][\A t \in BagToSet(threads) :
         (t.fn = "stop_recording" /\ t.pc \in {"lock", "check"}
            /\ Steps(t) /\ ~recording)
         => /\ UNCHANGED <<recorderVars, elapsed, delivered, data_lock>>
            /\ t.pc = "check"
               => /\ ret' = Returned("stop_recording", FALSE, NoneResult)
                  /\ threads' = Remove(threads, t)
                  /\ ~lock']_vars

\* stop_recording returned None on an idle recorder that still holds the
\* buffer of the previous recording
C15_Witness ==
    /\ ret = Returned("stop_recording", FALSE, NoneResult)
    /\ ~recording /\ stream = "None" /\ audio_data # <<>>

\* C16: a release handler that finds no recording active ends at once: it
\* stops nothing, unmutes nothing, emits no signal, leaves _processing and
\* the tray state alone and starts no transcription.
C16_ReleaseWithoutRecording ==
    [][\A t \in BagToSet(threads) :
         (At(t, "_on_hotkey_release", "check_recording") /\ Steps(t)
            /\ ~recording)
         => /\ threads' = Remove(threads, t)
            /\ signal' = "none"
            /\ UNCHANGED <<recorderVars, elapsed, muterVars, processing,
                           tray_state, transcriberVars>>]_vars

\* the key was pressed and released while the model was still loading: the
\* press was rejected and the release handler has come and gone
C16_Witness ==
    /\ running /\ loading /\ ~model_loaded
    /\ lastEdge = "release" /\ Handlers = {}
    /\ ~recording /\ ~processing

\* the threads inside a "with self._data_lock" block
InDataLock ==
    {t \in BagToSet(threads) :
        \/ At(t, "_audio_callback", "append")
        \/ t.fn = "stop_recording" /\ t.pc \in {"drain_test", "concat"}}

\* the stop_recording calls that have read the buffer
Drained == {t \in Running("stop_recording") : t.pc = "return"}

\* the start_recording calls that have cleared the buffer for a new session
Restarted ==
    {t \in Running("start_recording") :
        t.pc \in {"open", "stream_start", "set_recording"}}

C18_NoChunkDropped ==
    [][\A t \in BagToSet(threads) :
         StopReturnsResult(t)
         => Len(ret'.result.audio) = delivered]_vars

\* the calls of _process_transcription in flight
Workers == Running("_process_transcription")

\* the text the worker hands on: the stripped result text, corrected
Finalized(t) == correct(strip(t.tr_text))

\* C19: the worker transcribes first.  A failed transcription ends it with
\* the error and without any call to the corrector, the database or the
\* inserter; so does an empty or whitespace-only text, without the error.
\* Otherwise the first call is correct, on the stripped text, and every
\* later call (save_transcription, insert_text, copy_to_clipboard) gets the
\* corrected text.
C19_ProcessingOrder ==
    /\ [](\A t \in Workers :
            /\ (t.tr # "ok" \/ strip(t.tr_text) = <<>>) => t.calls = <<>>
            /\ t.calls # <<>>
               => /\ t.calls[1] = Call("correct", strip(t.tr_text), TRUE)
                  /\ \A i \in 2..Len(t.calls) :
                       /\ t.calls[i].fn \in {"save_transcription",
                                             "insert_text", "copy_to_clipboard"}
                       /\ t.calls[i].text = Finalized(t))
    /\ [][\A t \in Workers :
            (Steps(t) /\ t.pc # "transcribe" /\ t.tr # "ok")
            => /\ threads' = Spawn(Remove(threads, t),
                                   Thread("reset_state", "sleep"))
               /\ signal' = "error"]_vars

\* a worker has saved and pasted a text that the corrector changed
C19_Witness ==
    \E t \in Workers :
        /\ t.pc = "set_idle"
        /\ Finalized(t) # strip(t.tr_text)
        /\ t.calls = <<Call("correct", strip(t.tr_text), TRUE),
                       Call("save_transcription", Finalized(t), TRUE),
                       Call("insert_text", Finalized(t), TRUE)>>

\* the threads that hold the RecordingResult of a stopped recording: the
\* release handlers stop_recording returned one to, and the workers
Holding ==
    BagCardinality([t \in {u \in BagToSet(threads) :
                             \/ u.fn = "process"
                             \/ /\ u.fn = "_on_hotkey_release"
                                /\ u.result.status = "result"}
                    |-> threads[t]])

\* the step emitted a finalized transcript: saved, and pasted or copied
Finalizes == signal' \in {"pasted", "clipboard"}

\* C20: a recording yields at most one finalized transcript.  A recording
\* starts only in the start_recording step of a press handler; a
\* RecordingResult comes into being only in the stop_recording step of a
\* release handler, one per step and only by ending the active recording;
\* a worker starts only by taking over the result of its release handler;
\* and a transcript is finalized only by a worker that ends in that step.
C20_OneTranscriptPerRecording ==
    [][/\ (~recording /\ recording')
          => \E t \in Running("_on_hotkey_press") :
                t.pc = "start_recording" /\ Steps(t)
       /\ Holding' > Holding
          => /\ Holding' = Holding + 1
             /\ recording /\ ~recording'
             /\ \E t \in Running("_on_hotkey_release") :
                   t.pc = "stop_recording" /\ Steps(t)
       /\ Count("process")' > Count("process")
          => /\ Count("process")' = Count("process") + 1
             /\ Holding' = Holding
             /\ Count("_on_hotkey_release")' = Count("_on_hotkey_release") - 1
       /\ Finalizes
          => /\ Count("process")' = Count("process") - 1
             /\ Holding' = Holding - 1]_vars

\* two release handlers stopped the same recording: one got the result and
\* its worker has just pasted the transcript, the other got None
C20_Witness ==
    /\ signal = "pasted"
    /\ Holding = 0
    /\ \E t \in Running("_on_hotkey_release") : t.result.status = "None"

\* C29: with enable and disable called at any time, on_key_press is
\* dispatched only at a physical press (never at a key-repeat of a key that
\* was already held when the detector was enabled again), and a physical
\* press made while the detector is enabled is dispatched.
C29_NoStaleEdgeAfterEnable ==
    [][/\ PressDispatched => (~keyDown /\ keyDown')
       /\ (enabled /\ ~keyDown /\ keyDown') => PressDispatched]_vars

Corrected == {t \in BagToSet(threads) : t.fn = "correct" /\ t.pc = "done"}

\* the positions of text at which a key of the rules matches
MatchStarts(text) ==
    {i \in 1..Len(text) :
        \E n \in 1..Len(corrections) : matches_at(corrections[n][1], text, i)}

\* the length of the longest key of the rules that matches text at i
LongestAt(text, i) ==
    CHOOSE len \in 1..Len(text) :
        /\ \E n \in 1..Len(corrections) :
              /\ Len(corrections[n][1]) = len
              /\ matches_at(corrections[n][1], text, i)
        /\ \A n \in 1..Len(corrections) :
              matches_at(corrections[n][1], text, i)
                 => Len(corrections[n][1]) <= len

\* the first position of text at which a key of the rules matches
FirstStart(text) ==
    CHOOSE i \in MatchStarts(text) : \A j \in MatchStarts(text) : i <= j

\* s begins with p
StartsWith(s, p) == Len(p) <= Len(s) /\ SubSeq(s, 1, Len(p)) = p

\* C21: where keys of the rules match the text at one position, the
\* replacement of the longest of them is applied: the text returned is the
\* text up to the first position where a key matches, followed by the
\* replacement for the longest key matching there
C21_LongestMatchFirst ==
    \A t \in Corrected :
        MatchStarts(t.text) # {} =>
            LET i == FirstStart(t.text)
                len == LongestAt(t.text, i)
            IN StartsWith(t.returns,
                          SubSeq(t.text, 1, i - 1)
                            \o replace_match(corrections,
                                             SubSeq(t.text, i, i + len - 1)))

\* a key and a longer key that begins with it both match at one position,
\* the shorter one being the earlier rule, and the two replacements differ
C21_Witness ==
    \E t \in Corrected :
        /\ MatchStarts(t.text) # {}
        /\ Len(corrections) = 2
        /\ LET i == FirstStart(t.text)
               short == corrections[1][1]
               long == corrections[2][1]
           IN /\ Len(short) < Len(long)
              /\ matches_at(short, t.text, i)
              /\ matches_at(long, t.text, i)
              /\ StartsWith(lower(long), lower(short))
              /\ replace_match(corrections, SubSeq(t.text, i, i + Len(short) - 1))
                   # replace_match(corrections, SubSeq(t.text, i, i + Len(long) - 1))

\* the correct calls whose text was, as a whole, one match of the pattern
MatchedWhole ==
    {t \in Corrected :
        /\ pattern.compiled
        /\ finditer(pattern.alternatives, t.text, 1)
             = <<[start |-> 1, len |-> Len(t.text)]>>}

\* only the first character of s is upper-case
OnlyFirstUpper(s) ==
    /\ s[1] \in UpperChars
    /\ \A i \in 2..Len(s) : s[i] \notin UpperChars

\* C22: the replacement takes the case of the matched text: wholly
\* upper-case for a match that is all upper-case; else with its first
\* character upper-cased for a match of which only the first character is
\* upper-case; and exactly as stored otherwise
C22_CasePreserved ==
    \A t \in MatchedWhole :
        LET value == corrections[find_rule(corrections, t.text)][2]
        IN t.returns =
             IF isupper(t.text) THEN upper(value)
             ELSE IF OnlyFirstUpper(t.text)
             THEN <<char_upper(value[1])>> \o SubSeq(value, 2, Len(value))
             ELSE value

\* the n characters of text from position i on stand as a word of their
\* own: no word character right before them and none right after them
WholeWord(text, i, n) ==
    /\ i + n - 1 <= Len(text)
    /\ ~(i > 1 /\ text[i - 1] \in WordChars)
    /\ ~(i + n <= Len(text) /\ text[i + n] \in WordChars)

\* the whole-word occurrences of the keys of the rules in text, ignoring
\* case, each with its start and length
Occurrences(text) ==
    {m \in [start : 1..Len(text), len : 1..Len(text)] :
        /\ WholeWord(text, m.start, m.len)
        /\ \E n \in 1..Len(corrections) :
              /\ Len(corrections[n][1]) = m.len
              /\ lower(group(text, m)) = lower(corrections[n][1])}

\* what correct replaced in text: the matches of the pattern
Replaced(text) ==
    IF pattern.compiled
    THEN LET matches == finditer(pattern.alternatives, text, 1)
         IN {matches[n] : n \in 1..Len(matches)}
    ELSE {}

\* two stretches of a text share a character
Overlap(m1, m2) ==
    /\ m1.start < m2.start + m2.len
    /\ m2.start < m1.start + m1.len

\* C23: correct replaces whole-word occurrences of the keys and nothing
\* else: what it replaces is a whole-word occurrence of a key, never a part
\* of a larger word, and every whole-word occurrence of a key is replaced
\* (itself, or within a replaced occurrence that overlaps it)
C23_WholeWordsOnly ==
    \A t \in Corrected :
        /\ Replaced(t.text) \subseteq Occurrences(t.text)
        /\ \A m \in Occurrences(t.text) :
              \E r \in Replaced(t.text) : Overlap(m, r)

\* C26: correcting a corrected text that holds no whole-word occurrence of
\* a key of the rules changes nothing: correct(correct(text)) is
\* correct(text)
C26_IdempotentWithoutKeys ==
    \A t \in Corrected :
        Occurrences(t.returns) = {} => correct(t.returns) = t.returns

\* the add_correction and remove_correction calls in flight that have
\* changed the rules and not returned
Editing ==
    {e \in BagToSet(threads) :
        /\ e.fn \in {"add_correction", "remove_correction"}
        /\ e.pc \in {"save", "build", "done", "failed"}}

\* the pattern is the one _build_pattern gives for the rules
Agree == pattern = build_pattern(corrections)

\* C24: add_correction and remove_correction are atomic for correct, and
\* have rebuilt the pattern when they return: while one of them is between
\* its change of the rules and its return, no correct call takes a step
\* with rules and pattern that disagree, none fails on a pattern that went
\* away under it, and the call returns with a pattern that is the one of
\* the rules
C24_EditsAtomic ==
    [][\A t \in BagToSet(threads) :
          /\ (t.fn = "correct" /\ Steps(t) /\ Editing # {})
                => /\ Agree
                   /\ \A u \in BagToSet(threads') : u.pc # "raised"
          /\ (t \in Editing /\ t.pc \in {"done", "failed"} /\ Steps(t))
                => Agree]_vars

\* the keys the pattern matches, and the keys of the rules, in lower case
PatternKeys ==
    {lower(pattern.alternatives[n]) : n \in 1..Len(pattern.alternatives)}
RuleKeys == {lower(corrections[n][1]) : n \in 1..Len(corrections)}

\* C25: whenever no reload, add_correction or remove_correction is under
\* way, no two keys of the rules are equal in lower case, and the pattern
\* matches the keys of the rules and no other
C25_KeysUniquePatternCurrent ==
    Editors = 0 =>
        /\ \A i, j \in 1..Len(corrections) :
              lower(corrections[i][1]) = lower(corrections[j][1]) => i = j
        /\ PatternKeys = RuleKeys

\* C27: a correct call that finds the rule set empty returns its text
\* unchanged, whatever the pattern is by then: none (no rule was loaded,
\* the last rule was removed) or the one of the rules held before a load
\* that failed
C27_NoRulesNoChange ==
    [][\A t \in BagToSet(threads) :
          (At(t, "correct", "test") /\ corrections = <<>> /\ Steps(t))
             => threads' = Move(t, [t EXCEPT !.pc = "done",
                                             !.returns = t.text])]_vars

\* a call has returned its text unchanged with no rules left and the
\* pattern of the former rules, which matches the text, still in place
C27_Witness ==
    \E t \in Corrected :
        /\ corrections = <<>>
        /\ pattern.compiled
        /\ match_at(pattern.alternatives, t.text, 1) # 0
        /\ t.returns = t.text
        /\ Editors = 0

\* the words of text: the positions where a character other than a space
\* follows a space or begins the text
WordStarts(text) ==
    {i \in 1..Len(text) :
        text[i] # " " /\ (i = 1 \/ text[i - 1] = " ")}

\* C28: the record a worker gives to save_transcription carries the
\* corrected stripped text of the result, the duration the worker was
\* called with, the language of the result (the one the model detected,
\* else the one asked for) and the number of whitespace-separated words of
\* the corrected text; the save that raises apart
C28_FinalizedRecord ==
    [][\A t \in Workers :
          (t.pc = "save" /\ Steps(t)
             /\ BagCardinality(threads') = BagCardinality(threads))
             => \E u \in BagToSet(threads') :
                  /\ CopiesIn(u, threads') > CopiesIn(u, threads)
                  /\ u.pc = "insert"
                  /\ u.saved.text = Finalized(t)
                  /\ u.saved.duration_seconds = t.duration
                  /\ u.saved.language = t.language
                  /\ t.language \in {"English", asr_language}
                  /\ u.saved.word_count = Cardinality(WordStarts(Finalized(t)))]_vars

\* a worker has saved a text of three words that the corrector changed,
\* in the language the model detected
C28_Witness ==
    \E t \in Workers :
        /\ t.pc = "insert"
        /\ t.saved.word_count = 3
        /\ t.saved.text # strip(t.tr_text)
        /\ t.saved.language = "English"
        /\ t.saved.duration_seconds = MaxElapsed

\* C31: the detector does not wait for the handlers: while a handler it
\* dispatched is still running, or has raised, the next physical press
\* still dispatches on_key_press and the next physical release still
\* dispatches on_key_release
C31_HandlersNeverBlockDetection ==
    [][Handlers # {} =>
         /\ (~keyDown /\ keyDown') => PressDispatched
         /\ (keyDown /\ ~keyDown') => ReleaseDispatched]_vars

\* on_key_press was dispatched again while the release handler of the
\* cycle before is still running and its press handler has raised
C31_Witness ==
    /\ is_pressed
    /\ \E t \in Running("_on_hotkey_press") : t.pc = "checks"
    /\ \E t \in Running("_on_hotkey_press") : t.pc = "raised"
    /\ \E t \in Running("_on_hotkey_release") : t.pc \notin {"check_recording", "raised"}

\* C32: a press handler whose start_recording fails, because a recording
\* is active already or because the device fails, ends there: it does not
\* set the tray state, does not mute, and leaves _processing as it is
C32_FailedStartStaysIdle ==
    [][\A t \in BagToSet(threads) :
          (At(t, "_on_hotkey_press", "start_recording") /\ Steps(t)
             /\ (recording \/ ~recording'))
          => /\ threads' = Remove(threads, t)
             /\ UNCHANGED <<tray_state, muterVars, processing>>]_vars

\* the device failed at the start of the stream: the press handler is gone,
\* nothing records, the tray is idle and the audio is not muted
C32_Witness ==
    /\ stream = "created" /\ ~recording
    /\ Handlers = {}
    /\ tray_state = "IDLE" /\ ~sys_muted /\ ~processing
    /\ lastEdge = "press"

\* the chunks of audio are chunks the stream that was just stopped
\* delivered, each once and in the order of their delivery (a stream numbers
\* its chunks from 1 on)
OfThisSession(audio) ==
    \A i \in 1..Len(audio) :
        /\ audio[i] \in 1..delivered
        /\ \A j \in 1..(i - 1) : audio[j] < audio[i]

\* C33: the audio stop_recording returns is made of chunks delivered since
\* the matching start_recording, in their order of arrival, and of no chunk
\* delivered to an earlier session
C33_AudioOfThisSessionOnly ==
    [][(ret' # ret /\ ret'.call = "stop_recording" /\ ret'.ok)
         => OfThisSession(ret'.result.audio)]_vars

\* C34: when muting is disabled while the application holds the audio muted,
\* the audio is restored: the step that turns the flag off clears
\* _is_muted_by_us and unmutes the system audio the application had muted
C34_DisableRestoresAudio ==
    [][(mute_enabled /\ ~mute_enabled' /\ is_muted_by_us)
         => (~is_muted_by_us' /\ (~was_muted => ~sys_muted'))]_vars

\* C35: muting and unmuting are paired: once the press handler and the release
\* handler of a cycle have both finished, whatever their interleaving, the
\* application no longer holds the audio muted and the system audio is as it
\* was before the press (not muted)
C35_MutePairedPerCycle ==
    CyclesDone => (~is_muted_by_us /\ ~sys_muted)

\* C36: a failed inference produces exactly one error signal: of the steps of
\* one _process_transcription, only the "if not result.success" branch runs
\* _on_transcription_error, and it runs it for every failed result
C36_OneErrorPerFailure ==
    [][\A t \in Running("_process_transcription") :
          Steps(t) =>
            (signal' = "error" <=> (t.pc = "check_success" /\ t.tr # "ok"))]_vars

\* C37: the delayed reset after an error changes neither _processing nor the
\* recorder, and it sets the tray to IDLE only when no recording is active
\* and _processing is false
C37_ResetOnlyWhenIdle ==
    [][\A t \in Running("reset_state") :
          Steps(t) =>
            /\ UNCHANGED <<processing, recorderVars>>
            /\ t.pc = "set_idle" => (~recording /\ ~processing)]_vars

\* C38: whenever the running application is quiescent (no recording, _processing
\* false, no handler, worker, model load or delayed reset in flight) the tray
\* state is IDLE
C38_QuiescentIsIdle ==
    (running /\ ~recording /\ ~processing /\ threads = EmptyBag)
        => tray_state = "IDLE"

\* a call of fn returns
Completes(fn) == Count(fn)' < Count(fn)

\* C39: the recorder's two locks never deadlock: for each of start_recording,
\* stop_recording and _audio_callback, the calls in flight keep completing
\* (again and again either none is in flight or one of them returns)
C39_RecorderCallsComplete ==
    \A fn \in RecorderFns :
        []<>(Count(fn) = 0) \/ []<><<Completes(fn)>>_vars

\* a stop_recording holding _lock waits in stream.stop() for a callback that
\* holds _data_lock, while a start_recording waits for _lock
C39_Witness ==
    /\ lock /\ data_lock
    /\ \E t \in Running("stop_recording") : t.pc = "stream_stop"
    /\ \E t \in Running("start_recording") : t.pc = "lock"
    /\ \E t \in Running("_audio_callback") : t.pc = "append"

\* C40: a dictionary edit that fails changes nothing: when add_correction or
\* remove_correction returns False because the save raised, the rules in
\* memory are the ones the call found and the pattern is unchanged
C40_FailedEditChangesNothing ==
    [][\A t \in BagToSet(threads) :
          (t.fn \in {"add_correction", "remove_correction"}
             /\ t.pc = "failed" /\ Steps(t))
          => corrections = t.before]_vars

====
